---- MODULE Spec2Model ----
(***************************************************************************)
(* State-machine model of the MCQ platform (jennymaedelatorre/test_rag):   *)
(*   - the upload-and-index handlers (main.upload_pdf,                     *)
(*     routes/faculty/upload_topic.upload_topic) over the FAISS cache,     *)
(*   - the quiz handlers (routes/student/quiz.get_quiz_for_student,        *)
(*     submit_quiz) over the relational tables,                            *)
(*   - the generate/save handlers (routes/faculty/generate_quiz,           *)
(*     database/generated_questions.save_generated_questions).             *)
(* Each handler is split at the points where it touches shared state (a    *)
(* file-system test, a write, a commit), because FastAPI runs requests     *)
(* concurrently and nothing in the code serialises them.                   *)
(***************************************************************************)
EXTENDS Integers, Sequences, FiniteSets, Bags, TLC

VARIABLES
    \* ---- upload / index ----
    faiss_cache,     \* CACHE_DIR: index path (= file hash) -> persisted index
    index_builds,    \* history: file hash -> number of FAISS.from_documents runs
    documents,       \* Document table rows written by save_document
    topics,          \* Topic table rows
    topic_seq,       \* last Topic.id handed out by the database
    upload_dir,      \* UPLOAD_DIR: file name -> stored bytes
    uploads,         \* in-flight / finished upload requests
    \* ---- quiz ----
    now,             \* datetime.utcnow(), in minutes
    questions,       \* GeneratedQuestion table rows
    question_seq,    \* number of GeneratedQuestion ids handed out
    attempts,        \* StudentQuizAttempt table rows
    attempt_seq,     \* number of StudentQuizAttempt ids handed out
    answers,         \* StudentAnswer table, a bag of rows
    co_perf,         \* StudentCOPerformance table, a bag of rows
    progress,        \* StudentCourseProgress table, a bag of rows
    opens,           \* in-flight get_quiz_for_student requests
    sub,             \* the submit_quiz request being served
    submit_count,    \* number of submit_quiz requests received
    \* ---- generate / save ----
    session_cache,   \* request.session["quiz_cache_<topic>"]
    cache_tags,      \* history: CO tags of the request that filled the cache entry
    gen,             \* the generate_question request being served
    gen_count,       \* number of generate_question requests received
    llm_calls,       \* history: number of self.llm.invoke calls issued
    save_count,      \* number of save_questions requests received
    last_save,       \* outcome of the last save_generated_questions_route call
    \* ---- chunking ----
    chunk_call,      \* a call of load_and_chunk with explicit chunk_size / overlap
    \* ---- analytics ----
    courses,         \* Course table rows (with their CILO codes)
    report,          \* what the last analytics view computed
    \* ---- topic management ----
    manage           \* the last update_topic / delete_topic request and its outcome

uploadVars == <<faiss_cache, index_builds, documents, topics, topic_seq, upload_dir, uploads>>
quizVars   == <<now, attempts, attempt_seq, answers, co_perf, progress, opens, sub, submit_count>>
genVars    == <<session_cache, cache_tags, gen, gen_count, llm_calls, save_count, last_save>>
questionVars == <<questions, question_seq>>
chunkVars == <<chunk_call>>
reportVars == <<courses, report>>
manageVars == <<manage>>
vars == <<uploadVars, quizVars, genVars, questionVars, chunkVars, reportVars, manageVars>>

(***************************************************************************)
(* Strings.  A Python str is a sequence of characters; strip() and lower() *)
(* are computed character by character.                                    *)
(***************************************************************************)
Lower(c) == CASE c = "A" -> "a" [] c = "B" -> "b" [] c = "C" -> "c" [] c = "O" -> "o" [] OTHER -> c

Upper(c) == CASE c = "a" -> "A" [] c = "b" -> "B" [] c = "c" -> "C" [] c = "o" -> "O" [] OTHER -> c

IsSpace(c) == c = " "

RECURSIVE lstrip(_)
lstrip(s) == IF s # <<>> /\ IsSpace(Head(s)) THEN lstrip(Tail(s)) ELSE s

RECURSIVE rstrip(_)
rstrip(s) == IF s # <<>> /\ IsSpace(s[Len(s)]) THEN rstrip(SubSeq(s, 1, Len(s) - 1)) ELSE s

strip(s) == rstrip(lstrip(s))

lower(s) == [i \in 1..Len(s) |-> Lower(s[i])]

upper(s) == [i \in 1..Len(s) |-> Upper(s[i])]

\* json.dumps / json.loads: the text form of a value and its parse.
json_dumps(value) == [json |-> value]

json_loads(text) == text.json

Range(f) == {f[x] : x \in DOMAIN f}

(***************************************************************************)
(* Upload and index                                                        *)
(***************************************************************************)
MaxLen == 1                      \* longest uploaded file, in bytes
Bytes == {0, 1}
BlockSize == 1                   \* calculate_file_hash block_size, scaled to MaxLen

Contents == UNION {[1..n -> Bytes] : n \in 0..MaxLen}

UploadIds == {"u1", "u2"}
FileNames == {[stem |-> "a", ext |-> "pdf"], [stem |-> "b", ext |-> "pdf"], [stem |-> "a", ext |-> "txt"]}
CourseIds == {1}
TopicNos == {1, 2}
MaxTopics == 10

NoFile == [stem |-> "", ext |-> ""]

\* hasher.update(block): the digest absorbs the block byte by byte.
RECURSIVE hasher_update(_, _)
hasher_update(h, block) ==
    IF block = <<>> THEN h ELSE hasher_update(3 * h + Head(block) + 1, Tail(block))

\* The loop `for block in iter(lambda: f.read(block_size), b'')`.
RECURSIVE hash_blocks(_, _, _)
hash_blocks(h, rest, block_size) ==
    IF rest = <<>> THEN h
    ELSE LET n == IF Len(rest) < block_size THEN Len(rest) ELSE block_size
         IN hash_blocks(hasher_update(h, SubSeq(rest, 1, n)), SubSeq(rest, n + 1, Len(rest)), block_size)

calculate_file_hash(content) == hash_blocks(0, content, BlockSize)

\* PyPDFLoader + CharacterTextSplitter: one chunk per byte that carries text
\* (byte 1); byte 0 stands for a page without extractable text.  Every chunk
\* carries the document_uuid of the request that chunked it.
load_and_chunk(content, document_id) ==
    LET kept == SelectSeq(content, LAMBDA b : b = 1)
    IN [i \in 1..Len(kept) |-> [page_content |-> kept[i], document_uuid |-> document_id]]

(* load_and_chunk with explicit sizes.  `content` is here the text of one   *)
(* page as its paragraphs: byte 1 is a paragraph of one character, byte 0 an *)
(* empty one.  CharacterTextSplitter splits at the separator and merges the *)
(* pieces into chunks of at most chunk_size characters.                     *)
MaxText == 3                     \* most paragraphs of a chunked page
MaxChunk == 4                    \* largest chunk_size / overlap tried
SeparatorLen == 2                \* len("\n\n"), the splitter's separator

\* Length of the chunk a list of one-character pieces joins to.
Total(current_doc) ==
    IF current_doc = <<>> THEN 0 ELSE Len(current_doc) + SeparatorLen * (Len(current_doc) - 1)

\* Would one more piece overflow the chunk?
Overflows(current_doc, chunk_size) ==
    Total(current_doc) + 1 + (IF current_doc # <<>> THEN SeparatorLen ELSE 0) > chunk_size

\* The splitter's pop loop: keep at most chunk_overlap characters of the
\* chunk just emitted, and room for the next piece.
RECURSIVE drop_overlap(_, _, _)
drop_overlap(current_doc, chunk_size, chunk_overlap) ==
    IF Total(current_doc) > chunk_overlap
       \/ (Overflows(current_doc, chunk_size) /\ Total(current_doc) > 0)
    THEN drop_overlap(Tail(current_doc), chunk_size, chunk_overlap)
    ELSE current_doc

\* The splitter's merge of the pieces into chunks.
RECURSIVE merge_splits(_, _, _, _, _)
merge_splits(splits, chunk_size, chunk_overlap, current_doc, docs) ==
    IF splits = <<>>
    THEN IF current_doc = <<>> THEN docs ELSE Append(docs, current_doc)
    ELSE LET emit == Overflows(current_doc, chunk_size) /\ current_doc # <<>>
         IN merge_splits(Tail(splits), chunk_size, chunk_overlap,
                Append(IF emit THEN drop_overlap(current_doc, chunk_size, chunk_overlap)
                       ELSE current_doc, Head(splits)),
                IF emit THEN Append(docs, current_doc) ELSE docs)

\* CharacterTextSplitter(chunk_size=chunk_size, chunk_overlap=overlap) raises
\* ValueError for an overlap larger than the chunk size; load_and_chunk adds
\* no test of its own.
SplitterRejects(chunk_size, chunk_overlap) == chunk_overlap > chunk_size

\* The outcome of the call: the exception raised, if any, and the chunks.
load_and_chunk_with(content, chunk_size, overlap, document_id) ==
    IF SplitterRejects(chunk_size, overlap) THEN [raised |-> "ValueError", docs |-> <<>>]
    ELSE LET splits == SelectSeq(content, LAMBDA b : b = 1)
             texts == merge_splits(splits, chunk_size, overlap, <<>>, <<>>)
         IN [raised |-> "",
             docs |-> [i \in 1..Len(texts) |->
                          [page_content |-> texts[i], document_uuid |-> document_id]]]

Texts == UNION {[1..n -> Bytes] : n \in 0..MaxText}

NewChunkCall == [pc |-> "idle", content |-> <<>>, chunk_size |-> 0, overlap |-> 0,
                 result |-> "", docs |-> <<>>]

ChunkCalls == {[NewChunkCall EXCEPT !.content = c, !.chunk_size = n, !.overlap = o] :
                  c \in Texts, n \in 1..MaxChunk, o \in 0..(MaxChunk + 1)}

\* docs = load_and_chunk(path, chunk_size, overlap, document_id)
load_and_chunk_call ==
    /\ chunk_call.pc = "idle"
    /\ LET out == load_and_chunk_with(chunk_call.content, chunk_call.chunk_size,
                                       chunk_call.overlap, "u1")
       IN chunk_call' = [chunk_call EXCEPT !.pc = "done", !.docs = out.docs,
                            !.result = IF out.raised # "" THEN out.raised ELSE "ok"]
    /\ UNCHANGED <<uploadVars, quizVars, genVars, questionVars, reportVars, manageVars>>

IsPdfName(file_name) == Lower(file_name.ext) = "pdf"

IndexExistsNever(cache, index_path) == FALSE

\* index_path.exists() / os.path.exists(index_path)
IndexExists(cache, index_path) == index_path \in DOMAIN cache

IsCacheHit(status) == status \in {"loaded_from_cache", "FAISS INDEX RELOADED from cache."}

\* `docs_given` is FALSE for a call get_or_create_vector_store(index_path)
\* that leaves docs at its default None; both upload handlers pass docs.
NewUpload == [pc |-> "idle", route |-> "", file_name |-> NoFile, content |-> <<>>,
              course_id |-> 0, topic_no |-> 0, file_hash |-> -1, docs |-> <<>>,
              docs_given |-> TRUE,
              faiss_action |-> "", built |-> FALSE, wrote |-> FALSE,
              temp |-> FALSE, result |-> "", prior |-> {}]

\* Requests of the same bytes that had already completed successfully.
CompletedSame(content) ==
    {v \in UploadIds : uploads[v].pc = "done" /\ uploads[v].result = "success"
                       /\ uploads[v].content = content}

\* Lines 112-129 of upload_pdf: extension test, temp copy, hash.
upload_pdf_begin(u, file_name, content) ==
    /\ uploads[u].pc = "idle"
    /\ IF ~IsPdfName(file_name)
       THEN uploads' = [uploads EXCEPT ![u] = [@ EXCEPT !.pc = "done", !.route = "pdf",
                            !.file_name = file_name, !.content = content, !.result = "400"]]
       ELSE uploads' = [uploads EXCEPT ![u] = [@ EXCEPT !.pc = "check", !.route = "pdf",
                            !.file_name = file_name, !.content = content, !.temp = TRUE,
                            !.file_hash = calculate_file_hash(content),
                            !.prior = CompletedSame(content)]]
    /\ UNCHANGED <<faiss_cache, index_builds, documents, topics, topic_seq, upload_dir>>
    /\ UNCHANGED <<quizVars, genVars, questionVars, chunkVars, reportVars, manageVars>>

\* Lines 97-157 of upload_topic: extension test, topic limit, duplicate test,
\* temp copy, hash.
upload_topic_begin(u, file_name, content, course_id, topic_no) ==
    /\ uploads[u].pc = "idle"
    /\ LET req == [uploads[u] EXCEPT !.route = "topic", !.file_name = file_name,
                       !.content = content, !.course_id = course_id, !.topic_no = topic_no]
           topic_count == Cardinality({t \in topics : t.course_id = course_id})
           existing == {t \in topics : t.course_id = course_id
                            /\ (t.topic_no = topic_no \/ t.file_name = file_name)}
       IN IF ~IsPdfName(file_name)
          THEN uploads' = [uploads EXCEPT ![u] = [req EXCEPT !.pc = "done", !.result = "failed"]]
          ELSE IF topic_count >= MaxTopics
          THEN uploads' = [uploads EXCEPT ![u] = [req EXCEPT !.pc = "done", !.result = "limit"]]
          ELSE IF existing # {}
          THEN uploads' = [uploads EXCEPT ![u] = [req EXCEPT !.pc = "done", !.result = "duplicate"]]
          ELSE uploads' = [uploads EXCEPT ![u] = [req EXCEPT !.pc = "check", !.temp = TRUE,
                                !.file_hash = calculate_file_hash(content),
                                !.prior = CompletedSame(content)]]
    /\ UNCHANGED <<faiss_cache, index_builds, documents, topics, topic_seq, upload_dir>>
    /\ UNCHANGED <<quizVars, genVars, questionVars, chunkVars, reportVars, manageVars>>

\* `if index_path.exists()` of the handler (main.py 137, upload_topic.py 159)
\* and, on a miss, load_and_chunk.
upload_check_index(u) ==
    LET r == uploads[u] IN
    /\ r.pc = "check"
    /\ IF IndexExists(faiss_cache, r.file_hash)
       THEN uploads' = [uploads EXCEPT ![u] = [r EXCEPT !.faiss_action = "loaded_from_cache",
                            !.pc = IF r.route = "pdf" THEN "respond" ELSE "store"]]
       ELSE LET docs == load_and_chunk(r.content, u)
            IN IF r.route = "pdf" /\ docs = <<>>
               THEN uploads' = [uploads EXCEPT ![u] = [r EXCEPT !.pc = "done", !.result = "500",
                                    !.temp = FALSE]]
               ELSE uploads' = [uploads EXCEPT ![u] = [r EXCEPT !.pc = "vector_store", !.docs = docs]]
    /\ UNCHANGED <<faiss_cache, index_builds, documents, topics, topic_seq, upload_dir>>
    /\ UNCHANGED <<quizVars, genVars, questionVars, chunkVars, reportVars, manageVars>>

\* Where the caller goes on once get_or_create_vector_store has returned.
AfterIndex(route) ==
    CASE route = "pdf" -> "save_document" [] route = "topic" -> "store" [] OTHER -> "done"

AfterIndexResult(route, result) == IF route = "call" THEN "success" ELSE result

IsNoneNever(docs_given) == FALSE

\* `docs is None`
IsNone(docs_given) == ~docs_given

\* A caller other than the upload handlers: get_or_create_vector_store
\* (index_path) or get_or_create_vector_store(index_path, docs=docs).
index_call(u, index_path, docs_given, docs) ==
    /\ uploads[u].pc = "idle"
    /\ uploads' = [uploads EXCEPT ![u] = [@ EXCEPT !.pc = "vector_store", !.route = "call",
                        !.file_hash = index_path, !.docs_given = docs_given, !.docs = docs]]
    /\ UNCHANGED <<faiss_cache, index_builds, documents, topics, topic_seq, upload_dir>>
    /\ UNCHANGED <<quizVars, genVars, questionVars, chunkVars, reportVars, manageVars>>

\* get_or_create_vector_store up to FAISS.from_documents: the second
\* existence test, then either load_local or the build.
get_or_create_vector_store(u) ==
    LET r == uploads[u] IN
    /\ r.pc = "vector_store"
    /\ IF IndexExists(faiss_cache, r.file_hash)
       THEN /\ uploads' = [uploads EXCEPT ![u] = [r EXCEPT
                            !.faiss_action = "FAISS INDEX RELOADED from cache.",
                            !.pc = AfterIndex(r.route),
                            !.result = AfterIndexResult(r.route, @)]]
            /\ UNCHANGED index_builds
       ELSE IF IsNone(r.docs_given)
       THEN \* raise ValueError("No documents provided to build FAISS index!")
            /\ uploads' = [uploads EXCEPT ![u] = [r EXCEPT !.pc = "done", !.result = "ValueError",
                            !.temp = FALSE]]
            /\ UNCHANGED index_builds
       ELSE IF r.docs = <<>>
       THEN \* FAISS.from_documents([]) raises; upload_topic's except branch
            /\ uploads' = [uploads EXCEPT ![u] = [r EXCEPT !.pc = "done", !.result = "failed",
                            !.temp = FALSE]]
            /\ UNCHANGED index_builds
       ELSE /\ uploads' = [uploads EXCEPT ![u] = [r EXCEPT !.pc = "save_local", !.built = TRUE]]
            /\ index_builds' = [index_builds EXCEPT ![r.file_hash] = @ + 1]
    /\ UNCHANGED <<faiss_cache, documents, topics, topic_seq, upload_dir>>
    /\ UNCHANGED <<quizVars, genVars, questionVars, chunkVars, reportVars, manageVars>>

\* db.save_local(index_path): the built index replaces whatever is at the path.
vector_store_save_local(u) ==
    LET r == uploads[u] IN
    /\ r.pc = "save_local"
    /\ faiss_cache' = [p \in DOMAIN faiss_cache \cup {r.file_hash} |->
                          IF p = r.file_hash THEN [docs |-> r.docs, builder |-> u]
                          ELSE faiss_cache[p]]
    /\ uploads' = [uploads EXCEPT ![u] = [r EXCEPT !.wrote = TRUE,
                        !.faiss_action = "FAISS INDEX CREATED and saved to cache.",
                        !.pc = AfterIndex(r.route),
                        !.result = AfterIndexResult(r.route, @)]]
    /\ UNCHANGED <<index_builds, documents, topics, topic_seq, upload_dir>>
    /\ UNCHANGED <<quizVars, genVars, questionVars, chunkVars, reportVars, manageVars>>

\* save_document (document_db.py): insert unless the hash is already recorded.
save_document(u) ==
    LET r == uploads[u] IN
    /\ r.pc = "save_document"
    /\ documents' = IF \E d \in documents : d.file_hash = r.file_hash
                    THEN documents
                    ELSE documents \cup {[filename |-> r.file_name, file_hash |-> r.file_hash,
                                          index_path |-> r.file_hash, document_uuid |-> u]}
    /\ uploads' = [uploads EXCEPT ![u] = [r EXCEPT !.pc = "respond"]]
    /\ UNCHANGED <<faiss_cache, index_builds, topics, topic_seq, upload_dir>>
    /\ UNCHANGED <<quizVars, genVars, questionVars, chunkVars, reportVars, manageVars>>

\* upload_pdf lines 165-182: the JSON response and the temp-file cleanup.
upload_pdf_respond(u) ==
    LET r == uploads[u] IN
    /\ r.pc = "respond"
    /\ uploads' = [uploads EXCEPT ![u] = [r EXCEPT !.pc = "done", !.result = "success", !.temp = FALSE]]
    /\ UNCHANGED <<faiss_cache, index_builds, documents, topics, topic_seq, upload_dir>>
    /\ UNCHANGED <<quizVars, genVars, questionVars, chunkVars, reportVars, manageVars>>

\* upload_topic lines 165-193: move the file into UPLOAD_DIR, insert the Topic.
upload_topic_store(u) ==
    LET r == uploads[u] IN
    /\ r.pc = "store"
    /\ upload_dir' = [f \in DOMAIN upload_dir \cup {r.file_name} |->
                         IF f = r.file_name THEN r.content ELSE upload_dir[f]]
    /\ topic_seq' = topic_seq + 1
    /\ topics' = topics \cup {[id |-> topic_seq + 1, course_id |-> r.course_id,
                               topic_no |-> r.topic_no, file_name |-> r.file_name,
                               file_path |-> r.file_name, file_hash |-> r.file_hash,
                               document_uuid |-> u]}
    /\ uploads' = [uploads EXCEPT ![u] = [r EXCEPT !.pc = "done", !.result = "success", !.temp = FALSE]]
    /\ UNCHANGED <<faiss_cache, index_builds, documents>>
    /\ UNCHANGED <<quizVars, genVars, questionVars, chunkVars, reportVars, manageVars>>

(***************************************************************************)
(* Topic management: update_topic and delete_topic                         *)
(***************************************************************************)
MaxManage == 2                   \* update_topic / delete_topic requests served
NoManage == [count |-> 0, op |-> "", topic_id |-> 0, result |-> ""]

\* os.remove(path) when os.path.exists(path)
RemoveFile(dir, path) == [f \in DOMAIN dir \ {path} |-> dir[f]]

\* open(path, "wb") + shutil.copyfileobj: creates the file or replaces its bytes.
WriteFile(dir, path, content) ==
    [f \in DOMAIN dir \cup {path} |-> IF f = path THEN content ELSE dir[f]]

\* update_topic (lines 213-253).  `file_given` is `file and file.filename`.
\* Title and subtitle are not part of the modelled Topic row.  Of the row
\* only file_path is assigned (line 243).
update_topic(topic_id, file_given, file_name, content) ==
    /\ manage.count < MaxManage
    /\ LET found == {t \in topics : t.id = topic_id}
       IN IF found = {}
          THEN /\ manage' = [count |-> manage.count + 1, op |-> "update_topic",
                             topic_id |-> topic_id, result |-> "404"]
               /\ UNCHANGED <<topics, upload_dir>>
          ELSE LET topic == CHOOSE t \in found : TRUE
               IN /\ manage' = [count |-> manage.count + 1, op |-> "update_topic",
                                topic_id |-> topic_id, result |-> "updated"]
                  /\ IF file_given
                     THEN /\ upload_dir' = WriteFile(RemoveFile(upload_dir, topic.file_path),
                                                    file_name, content)
                          /\ topics' = (topics \ {topic})
                                          \cup {[topic EXCEPT !.file_path = file_name]}
                     ELSE UNCHANGED <<topics, upload_dir>>
    /\ UNCHANGED <<faiss_cache, index_builds, documents, topic_seq, uploads>>
    /\ UNCHANGED <<quizVars, genVars, questionVars, chunkVars, reportVars>>

\* GeneratedQuestion.topic_id once its Topic is deleted (the relationship
\* has no delete cascade: the ORM sets the column to NULL).
NoTopic == 0

\* delete_topic (lines 258-288): the file is removed first, then the row.
\* The database removes the topic's attempts, their answers and the CO rows
\* (ondelete="CASCADE"); StudentCourseProgress.topic_id has no ondelete, so
\* the commit fails while a progress row refers to the topic.
delete_topic(topic_id) ==
    /\ manage.count < MaxManage
    /\ LET found == {t \in topics : t.id = topic_id}
       IN IF found = {}
          THEN /\ manage' = [count |-> manage.count + 1, op |-> "delete_topic",
                             topic_id |-> topic_id, result |-> "not_found"]
               /\ UNCHANGED <<topics, upload_dir, questions, attempts, answers, co_perf>>
          ELSE LET topic == CHOOSE t \in found : TRUE
                   gone == {a.id : a \in {x \in attempts : x.topic_id = topic_id}}
               IN /\ upload_dir' = RemoveFile(upload_dir, topic.file_path)
                  /\ IF \E p \in BagToSet(progress) : p.topic_id = topic_id
                     THEN /\ manage' = [count |-> manage.count + 1, op |-> "delete_topic",
                                        topic_id |-> topic_id, result |-> "IntegrityError"]
                          /\ UNCHANGED <<topics, questions, attempts, answers, co_perf>>
                     ELSE /\ manage' = [count |-> manage.count + 1, op |-> "delete_topic",
                                        topic_id |-> topic_id, result |-> "deleted"]
                          /\ topics' = topics \ {topic}
                          /\ questions' = {IF q.topic_id = topic_id
                                           THEN [q EXCEPT !.topic_id = NoTopic] ELSE q
                                              : q \in questions}
                          /\ attempts' = {a \in attempts : a.topic_id # topic_id}
                          /\ answers' = [row \in {r \in DOMAIN answers : r.attempt_id \notin gone}
                                            |-> answers[row]]
                          /\ co_perf' = [row \in {r \in DOMAIN co_perf : r.topic_id # topic_id}
                                            |-> co_perf[row]]
    /\ UNCHANGED <<faiss_cache, index_builds, documents, topic_seq, uploads>>
    /\ UNCHANGED <<now, attempt_seq, progress, opens, sub, submit_count>>
    /\ UNCHANGED <<question_seq, genVars, chunkVars, reportVars>>

(***************************************************************************)
(* Quiz: get_quiz_for_student and submit_quiz                              *)
(***************************************************************************)
QuizDuration == 15               \* attempt.set_end_time(15), minutes
ClockStep == 15                  \* granularity of the modelled clock, minutes
MaxTime == 30                    \* the clock stops here
MaxSubmits == 2                  \* submit_quiz requests served

StudentIds == {1, 2}
QuizTopicIds == {1, 2}
OpenIds == {"o1", "o2"}
NULL == <<"null">>               \* JSON null / Python None (not a str)
NoAttempt == 0

CO1 == <<"C", "O", "1">>
CO2 == <<"C", "O", "2">>
CO3 == <<"C", "O", "3">>
COURSE_OUTCOMES == {CO1, CO2, CO3}

FourOptions == << <<"A">>, <<"b">>, <<"c">>, <<"d">> >>

\* Rows that save_generated_questions can have written for topic 1.
Q1 == [question_id |-> 1, topic_id |-> 1, user_id |-> 9, question_text |-> <<"q">>,
       options_json |-> json_dumps(FourOptions), correct_answer |-> <<"A">>, co_tag |-> CO1]
Q2 == [question_id |-> 2, topic_id |-> 1, user_id |-> 9, question_text |-> <<"q">>,
       options_json |-> json_dumps(FourOptions), correct_answer |-> <<"b">>, co_tag |-> CO2]
\* The row of an item that came without correct_answer (stored as "").
Q3 == [question_id |-> 2, topic_id |-> 1, user_id |-> 9, question_text |-> <<"q">>,
       options_json |-> json_dumps(FourOptions), correct_answer |-> <<>>, co_tag |-> CO1]
QuestionBanks == {{}, {Q1}, {Q1, Q2}, {Q1, Q3}}

QuizTopics == {[id |-> t, course_id |-> 1, topic_no |-> t,
                file_name |-> [stem |-> "a", ext |-> "pdf"],
                file_path |-> [stem |-> "a", ext |-> "pdf"],
                file_hash |-> calculate_file_hash(<<1>>), document_uuid |-> "u1"] : t \in {1}}

PayloadKeys == {1, 2}
AnswerValues == {<<" ", "a">>, <<"B">>, NULL}
\* The `answers` objects a client posts: empty, one key, or both keys.
Payloads == UNION {[ks -> AnswerValues] : ks \in {{}, {1}}}
            \cup {(1 :> <<" ", "a">> @@ 2 :> <<"B">>)}

NewOpen == [pc |-> "idle", user_id |-> 0, topic_id |-> 0, start_time |-> 0, result |-> ""]

NoSnapshot == [answers |-> EmptyBag, co_perf |-> EmptyBag, progress |-> EmptyBag, attempts |-> {}]

\* A request in flight; `pre` remembers the tables as submit_quiz found them.
\* A finished request keeps only its outcome.
NewSubmit == [pc |-> "idle", user_id |-> 0, topic_id |-> 0, attempt_id |-> NoAttempt,
              answers |-> <<>>, score |-> 0, total |-> 0, result |-> "", pre |-> NoSnapshot]

Finished(result) == [NewSubmit EXCEPT !.pc = "done", !.result = result]

Snapshot == [answers |-> answers, co_perf |-> co_perf, progress |-> progress, attempts |-> attempts]

\* The clock.
Tick ==
    /\ now + ClockStep <= MaxTime
    /\ now' = now + ClockStep
    /\ UNCHANGED <<attempts, attempt_seq, answers, co_perf, progress, opens, sub, submit_count>>
    /\ UNCHANGED <<uploadVars, genVars, questionVars, chunkVars, reportVars, manageVars>>

\* get_quiz_for_student lines 23-45: topic lookup, the "already attempted"
\* query, construction of the new attempt.
get_quiz_for_student(o, user_id, topic_id) ==
    /\ opens[o].pc = "idle"
    /\ LET req == [opens[o] EXCEPT !.user_id = user_id, !.topic_id = topic_id]
           attempt == {a \in attempts : a.student_id = user_id /\ a.topic_id = topic_id}
       IN IF ~\E t \in topics : t.id = topic_id
          THEN opens' = [opens EXCEPT ![o] = [NewOpen EXCEPT !.pc = "done", !.result = "404"]]
          ELSE IF attempt # {}
          THEN opens' = [opens EXCEPT ![o] = [NewOpen EXCEPT !.pc = "done", !.result = "redirect"]]
          ELSE opens' = [opens EXCEPT ![o] = [req EXCEPT !.pc = "commit", !.start_time = now]]
    /\ UNCHANGED <<now, attempts, attempt_seq, answers, co_perf, progress, sub, submit_count>>
    /\ UNCHANGED <<uploadVars, genVars, questionVars, chunkVars, reportVars, manageVars>>

\* get_quiz_for_student lines 46-79: db.add(attempt); db.commit().
get_quiz_commit(o) ==
    LET r == opens[o] IN
    /\ r.pc = "commit"
    /\ attempt_seq' = attempt_seq + 1
    /\ attempts' = attempts \cup {[id |-> attempt_seq + 1, student_id |-> r.user_id,
                                   topic_id |-> r.topic_id, start_time |-> r.start_time,
                                   end_time |-> r.start_time + QuizDuration,
                                   submitted |-> FALSE, score |-> 0, total_questions |-> 0,
                                   attempt_number |-> 1]}
    /\ opens' = [opens EXCEPT ![o] = [NewOpen EXCEPT !.pc = "done", !.result = "quiz"]]
    /\ UNCHANGED <<now, answers, co_perf, progress, sub, submit_count>>
    /\ UNCHANGED <<uploadVars, genVars, questionVars, chunkVars, reportVars, manageVars>>

ExpiredNever(current, end_time) == FALSE

\* `datetime.utcnow() > attempt.end_time`
Expired(current, end_time) == current > end_time

DeleteNothing(table, attempt_id) == table

\* db.query(Table).filter_by(attempt_id=attempt_id).delete()
DeleteByAttempt(table, attempt_id) ==
    [row \in {r \in DOMAIN table : r.attempt_id # attempt_id} |-> table[row]]

\* answers.get(str(q.question_id), "")
PayloadGet(payload, question_id) ==
    IF question_id \in DOMAIN payload THEN payload[question_id] ELSE <<>>

\* `user_answer.lower() == q.correct_answer.strip().lower()`
IsCorrect(payload, q) ==
    lower(strip(PayloadGet(payload, q.question_id))) = lower(strip(q.correct_answer))

\* The StudentAnswer row built at lines 120-127.
AnswerRecord(attempt_id, payload, q) ==
    [attempt_id |-> attempt_id, question_id |-> q.question_id,
     question_text |-> q.question_text,
     student_answer |-> strip(PayloadGet(payload, q.question_id)),
     correct_answer |-> strip(q.correct_answer), co_tag |-> q.co_tag]

ScoredAttemptAccumulate(a, score, total) ==
    [a EXCEPT !.score = a.score + score, !.total_questions = total, !.submitted = TRUE]

\* Lines 132-134: attempt.score / total_questions / submitted.
ScoredAttempt(a, score, total) ==
    [a EXCEPT !.score = score, !.total_questions = total, !.submitted = TRUE]

FindAttemptById(table, attempt_id, user_id, topic_id) == {a \in table : a.id = attempt_id}

\* db.query(StudentQuizAttempt).filter_by(id=attempt_id, student_id=user_id,
\* topic_id=topic_id)
FindAttempt(table, attempt_id, user_id, topic_id) ==
    {a \in table : a.id = attempt_id /\ a.student_id = user_id /\ a.topic_id = topic_id}

\* submit_quiz lines 87-110: payload test, attempt lookup, time limit, then
\* delete of the attempt's answers and the first commit.
submit_quiz(user_id, topic_id, attempt_id, payload) ==
    /\ sub.pc \in {"idle", "done"}
    /\ submit_count < MaxSubmits
    /\ submit_count' = submit_count + 1
    /\ LET req == [NewSubmit EXCEPT !.user_id = user_id, !.topic_id = topic_id,
                       !.attempt_id = attempt_id, !.answers = payload, !.pre = Snapshot]
           attempt == FindAttempt(attempts, attempt_id, user_id, topic_id)
       IN IF topic_id = 0 \/ payload = <<>> \/ attempt_id = NoAttempt
          THEN sub' = Finished("400") /\ UNCHANGED answers
          ELSE IF attempt = {}
          THEN sub' = Finished("not_found") /\ UNCHANGED answers
          ELSE IF \E a \in attempt : Expired(now, a.end_time)
          THEN sub' = Finished("expired") /\ UNCHANGED answers
          ELSE /\ sub' = [req EXCEPT !.pc = "score"]
               /\ answers' = DeleteByAttempt(answers, attempt_id)
    /\ UNCHANGED <<now, attempts, attempt_seq, co_perf, progress, opens>>
    /\ UNCHANGED <<uploadVars, genVars, questionVars, chunkVars, reportVars, manageVars>>

\* submit_quiz lines 113-135: score the topic's questions, insert one
\* StudentAnswer per question, update the attempt, second commit.  A JSON
\* null answer makes `.strip()` raise before anything of this step is
\* committed.
submit_score ==
    /\ sub.pc = "score"
    /\ LET qs == {q \in questions : q.topic_id = sub.topic_id}
           total == Cardinality(qs)
           score == Cardinality({q \in qs : IsCorrect(sub.answers, q)})
       IN IF \E q \in qs : PayloadGet(sub.answers, q.question_id) = NULL
          THEN /\ sub' = Finished("error")
               /\ UNCHANGED <<answers, attempts>>
          ELSE /\ answers' = answers (+) SetToBag({AnswerRecord(sub.attempt_id, sub.answers, q) : q \in qs})
               /\ attempts' = {IF a.id = sub.attempt_id THEN ScoredAttempt(a, score, total) ELSE a
                               : a \in attempts}
               /\ sub' = [sub EXCEPT !.pc = "progress", !.score = score, !.total = total]
    /\ UNCHANGED <<now, attempt_seq, co_perf, progress, opens, submit_count>>
    /\ UNCHANGED <<uploadVars, genVars, questionVars, chunkVars, reportVars, manageVars>>

\* submit_quiz lines 140-157: mark the topic completed, third commit.
submit_progress ==
    /\ sub.pc = "progress"
    /\ LET mine == {p \in BagToSet(progress) : p.student_id = sub.user_id /\ p.topic_id = sub.topic_id}
       IN IF mine = {}
          THEN progress' = progress (+) SetToBag({[student_id |-> sub.user_id, topic_id |-> sub.topic_id,
                                viewed |-> TRUE, viewed_at |-> now,
                                completed |-> TRUE, completed_at |-> now]})
          ELSE \E p \in mine :
                 progress' = (progress (-) SetToBag({p})) (+)
                             SetToBag({[p EXCEPT !.completed = TRUE, !.completed_at = now,
                                                 !.viewed = TRUE,
                                                 !.viewed_at = IF p.viewed THEN p.viewed_at ELSE now]})
    /\ sub' = [sub EXCEPT !.pc = "co_perf"]
    /\ UNCHANGED <<now, attempts, attempt_seq, answers, co_perf, opens, submit_count>>
    /\ UNCHANGED <<uploadVars, genVars, questionVars, chunkVars, reportVars, manageVars>>

COPerfRowUntagged(user_id, topic_id, attempt_id, payload, qs, co) ==
    LET correct == Cardinality({q \in qs : IsCorrect(payload, q)})
        total == Cardinality(qs)
    IN [student_id |-> user_id, topic_id |-> topic_id, attempt_id |-> attempt_id,
        co_tag |-> co, total_questions |-> total, correct_answers |-> correct,
        percentage |-> IF total > 0 THEN [num |-> correct * 100, den |-> total]
                       ELSE [num |-> 0, den |-> 1]]

\* The StudentCOPerformance row of lines 169-179 for one CO tag; the float
\* percentage (correct / total) * 100 is kept exact as the fraction num/den.
COPerfRow(user_id, topic_id, attempt_id, payload, qs, co) ==
    LET tagged == {q \in qs : q.co_tag = co}
        correct == Cardinality({q \in tagged : IsCorrect(payload, q)})
        total == Cardinality(tagged)
    IN [student_id |-> user_id, topic_id |-> topic_id, attempt_id |-> attempt_id,
        co_tag |-> co, total_questions |-> total, correct_answers |-> correct,
        percentage |-> IF total > 0 THEN [num |-> correct * 100, den |-> total]
                       ELSE [num |-> 0, den |-> 1]]

\* submit_quiz lines 160-183: replace the attempt's CO rows, last commit.
submit_co_perf ==
    /\ sub.pc = "co_perf"
    /\ LET qs == {q \in questions : q.topic_id = sub.topic_id}
           tags == {q.co_tag : q \in qs}
       IN co_perf' = DeleteByAttempt(co_perf, sub.attempt_id) (+)
                     SetToBag({COPerfRow(sub.user_id, sub.topic_id, sub.attempt_id, sub.answers, qs, co)
                               : co \in tags})
    /\ sub' = Finished("success")
    /\ UNCHANGED <<now, attempts, attempt_seq, answers, progress, opens, submit_count>>
    /\ UNCHANGED <<uploadVars, genVars, questionVars, chunkVars, reportVars, manageVars>>

\* A database error (PersistenceError) at the commit of any step after the
\* first: the exception leaves submit_quiz, get_db closes the session and
\* only the uncommitted work of the current step is discarded.
submit_fail ==
    /\ sub.pc \in {"score", "progress", "co_perf"}
    /\ sub' = Finished("error")
    /\ UNCHANGED <<now, attempts, attempt_seq, answers, co_perf, progress, opens, submit_count>>
    /\ UNCHANGED <<uploadVars, genVars, questionVars, chunkVars, reportVars, manageVars>>

(***************************************************************************)
(* Generate and save questions                                             *)
(***************************************************************************)
MaxBatch == 2                    \* most items in one backend response
MaxGenerate == 2                 \* generate_question requests served
MaxSaves == 2                    \* save_questions requests served
MinQuestions == 1
MaxQuestions == 20

MISSING == <<"missing">>         \* the key is absent from the JSON object

ThreeOptions == << <<"A">>, <<"b">>, <<"c">> >>

\* Items a backend response can carry: well formed, blank text, no options,
\* three options, an answer that is no option, no co_tag, a null co_tag, no
\* correct_answer.
Items == {
    [question |-> <<" ", "q">>, options |-> FourOptions,  correct_answer |-> <<"a", " ">>, co_tag |-> CO2],
    [question |-> <<" ">>,      options |-> FourOptions,  correct_answer |-> <<"A">>,      co_tag |-> CO1],
    [question |-> <<"q">>,      options |-> MISSING,      correct_answer |-> <<"A">>,      co_tag |-> CO1],
    [question |-> <<"q">>,      options |-> ThreeOptions, correct_answer |-> <<"A">>,      co_tag |-> CO1],
    [question |-> <<"q">>,      options |-> FourOptions,  correct_answer |-> <<"z">>,      co_tag |-> CO3],
    [question |-> <<"q">>,      options |-> FourOptions,  correct_answer |-> <<"b">>,      co_tag |-> MISSING],
    [question |-> <<"q">>,      options |-> FourOptions,  correct_answer |-> <<"b">>,      co_tag |-> NULL],
    [question |-> <<"q">>,      options |-> FourOptions,  correct_answer |-> MISSING,      co_tag |-> CO1]}

\* Items that longer responses are made of: a well-formed one and one with
\* three options.
CoreItems == {i \in Items : i.co_tag = CO2 \/ i.options = ThreeOptions}

\* The `questions` lists of backend responses: none, any one item, or up to
\* MaxBatch core items.
Batches == {<<>>} \cup {<<i>> : i \in Items} \cup UNION {[1..n -> CoreItems] : n \in 2..MaxBatch}

\* What self.llm.invoke returns: an exception, a dict, or text.  Text is a
\* sequence of tokens: the three-backtick fence, a language tag, white
\* space, junk, or a JSON document (carried as the value it parses to).
NoData == [none |-> TRUE]
Token(name) == [tok |-> name, data |-> NoData]
Fence == Token("fence")
TagJson == Token("json")
TagPython == Token("python")
Blank == Token(" ")
Junk == Token("junk")
JsonOf(data) == [tok |-> "document", data |-> data]
IsJson(token) == token.tok = "document"
TextsOf(data) == {
    <<JsonOf(data)>>,
    <<Fence, TagJson, Blank, JsonOf(data), Blank, Fence>>,
    <<Blank, Fence, Blank, JsonOf(data), Fence>>,
    <<Fence, TagPython, Blank, JsonOf(data), Fence>>,
    <<JsonOf(data), Junk>>}

\* A payload wrapped as backends do: an optional leading fence, itself
\* optionally followed by a language tag, and an optional trailing fence,
\* with or without white space next to the fences.
LanguageTags == {TagJson, TagPython}
FencedTexts(data, tags) ==
    LET leads == {<<>>, <<Fence>>, <<Fence, Blank>>}
                 \cup {<<Fence, tag>> : tag \in tags} \cup {<<Fence, tag, Blank>> : tag \in tags}
        trails == {<<>>, <<Fence>>, <<Blank, Fence>>, <<Fence, Blank>>}
    IN {lead \o <<JsonOf(data)>> \o trail : lead \in leads, trail \in trails}

Payload(batch) == [questions |-> batch]
SamplePayload == Payload(<<CHOOSE i \in Items : i.co_tag = CO2>>)
Responses ==
    {[kind |-> "error", data |-> NoData, text |-> <<>>]}
    \cup {[kind |-> "dict", data |-> Payload(b), text |-> <<>>] : b \in Batches}
    \cup {[kind |-> "dict", data |-> [other |-> <<>>], text |-> <<>>]}
    \cup {[kind |-> "text", data |-> NoData, text |-> t] : t \in TextsOf(Payload(<<CHOOSE i \in Items : i.co_tag = CO2>>))}
    \cup {[kind |-> "text", data |-> NoData, text |-> <<Junk>>]}
    \cup {[kind |-> "text", data |-> NoData, text |-> t] : t \in FencedTexts(SamplePayload, LanguageTags)}

\* Token-level str helpers used by MCQGeneratorChain.run.
IsBlank(token) == token = Blank

RECURSIVE lstrip_tokens(_)
lstrip_tokens(t) == IF t # <<>> /\ IsBlank(Head(t)) THEN lstrip_tokens(Tail(t)) ELSE t

RECURSIVE rstrip_tokens(_)
rstrip_tokens(t) ==
    IF t # <<>> /\ IsBlank(t[Len(t)]) THEN rstrip_tokens(SubSeq(t, 1, Len(t) - 1)) ELSE t

strip_tokens(t) == rstrip_tokens(lstrip_tokens(t))

startswith(t, prefix) == Len(t) >= Len(prefix) /\ SubSeq(t, 1, Len(prefix)) = prefix

endswith(t, suffix) == Len(t) >= Len(suffix) /\ SubSeq(t, Len(t) - Len(suffix) + 1, Len(t)) = suffix

removeprefix(t, prefix) == IF startswith(t, prefix) THEN SubSeq(t, Len(prefix) + 1, Len(t)) ELSE t

removesuffix(t, suffix) == IF endswith(t, suffix) THEN SubSeq(t, 1, Len(t) - Len(suffix)) ELSE t

clean_response_strip_only(text) == strip_tokens(text)

\* Lines 108-120 of MCQGeneratorChain.run: strip, then drop the fences.
clean_response(text) ==
    LET raw == strip_tokens(text)
        c1 == IF startswith(raw, <<Fence, TagJson>>)
              THEN strip_tokens(removeprefix(raw, <<Fence, TagJson>>)) ELSE raw
        c2 == IF startswith(c1, <<Fence>>) THEN strip_tokens(removeprefix(c1, <<Fence>>)) ELSE c1
        c3 == IF endswith(c2, <<Fence>>) THEN strip_tokens(removesuffix(c2, <<Fence>>)) ELSE c2
    IN c3

ParseFailed == [failed |-> TRUE]

\* A lenient parser: the first JSON document found anywhere in the text.
MCQGeneratorChain_runLenient(response) ==
    IF response.kind = "error" THEN ParseFailed
    ELSE IF response.kind = "dict" THEN response.data
    ELSE LET found == SelectSeq(response.text, IsJson)
         IN IF found # <<>> THEN found[1].data ELSE ParseFailed

\* MCQGeneratorChain.run from the backend call on: the parsed data, or
\* ParseFailed where run raises RuntimeError.
MCQGeneratorChain_run(response) ==
    IF response.kind = "error" THEN ParseFailed
    ELSE IF response.kind = "dict" THEN response.data
    ELSE LET clean == clean_response(response.text)
         IN IF Len(clean) = 1 /\ IsJson(clean[1]) THEN clean[1].data ELSE ParseFailed

\* dict.get(key, default)
ItemGet(value, default) == IF value = MISSING THEN default ELSE value

\* `run_raised` remembers that chain.run raised RuntimeError for the request,
\* `unfenced` that it removed fence markers from the response.
NewGenerate == [pc |-> "idle", topic_id |-> 0, topic_list |-> <<>>, num_questions |-> 0,
                co_tag_list |-> <<>>, chunks |-> <<>>, context |-> <<>>, result |-> "",
                run_raised |-> FALSE, unfenced |-> FALSE]

GenerateFinished(result) == [NewGenerate EXCEPT !.pc = "done", !.result = result]

NoSave == [status |-> "", saved |-> 0]

\* The comprehension [t.strip() for t in s.split(",") if t.strip()], applied
\* to the pieces of the split.
StripPieces(pieces) == SelectSeq([i \in 1..Len(pieces) |-> strip(pieces[i])], LAMBDA t : t # <<>>)

TopicInputs == {<<>>, << <<" ">> >>, << <<" ", "s">> >>, << <<"s">>, <<"t">> >>}
TagInputs == {<<>>, << <<" ">> >>, << <<"c", "o", "2">> >>, << CO1, <<" ">>, CO2 >>}
QuestionCounts == {0, 1, 2, 21}

ValidCountAlways(num_questions) == TRUE

\* `1 <= num_questions <= 20`
ValidCount(num_questions) == MinQuestions <= num_questions /\ num_questions <= MaxQuestions

\* retriever.get_relevant_documents(t): the stored chunks nearest to the
\* query, nearest first, at most RetrieverK of them.  Which chunks are near
\* depends on the query: a query starting with "t" ranks the chunks in the
\* reverse of the order that other queries rank them in.
RetrieverK == 4
Ranked(index, topic) ==
    LET n == Len(index.docs)
        order == IF topic # <<>> /\ Head(topic) = "t"
                 THEN [i \in 1..n |-> index.docs[n + 1 - i]] ELSE index.docs
    IN SubSeq(order, 1, IF n < RetrieverK THEN n ELSE RetrieverK)

RetrieveUncut(index, topic) == Ranked(index, topic)

\* retriever.get_relevant_documents(t)[:2] over the persisted index.
Retrieve(index, topic) ==
    SubSeq(Ranked(index, topic), 1, IF Len(Ranked(index, topic)) < 2 THEN Len(Ranked(index, topic)) ELSE 2)

\* "\n\n".join([d.page_content for d in all_retrieved_chunks]): the page
\* contents in list order (the separators left out).
merged_context(all_retrieved_chunks) ==
    [i \in 1..Len(all_retrieved_chunks) |-> all_retrieved_chunks[i].page_content]

RECURSIVE RetrieveAll(_, _)
RetrieveAll(index, topic_list) ==
    IF topic_list = <<>> THEN <<>>
    ELSE Retrieve(index, Head(topic_list)) \o RetrieveAll(index, Tail(topic_list))

\* generate_question lines 69-120: validation, topic and index lookup,
\* retrieval, and the call self.llm.invoke(formatted_prompt) being issued;
\* the request then waits for the backend.
generate_question(topic_id, topics_input, num_questions, co_tags_input) ==
    /\ gen.pc \in {"idle", "done"}
    /\ gen_count < MaxGenerate
    /\ gen_count' = gen_count + 1
    /\ LET topic_list == StripPieces(topics_input)
           co_tag_list == [i \in 1..Len(StripPieces(co_tags_input)) |-> upper(StripPieces(co_tags_input)[i])]
           topic_record == {t \in topics : t.id = topic_id}
       IN IF ~ValidCount(num_questions)
          THEN gen' = GenerateFinished("400")
          ELSE IF topic_list = <<>> \/ co_tag_list = <<>>
          THEN gen' = GenerateFinished("400")
          ELSE IF topic_record = {}
          THEN gen' = GenerateFinished("404")
          ELSE LET file_hash == (CHOOSE t \in topic_record : TRUE).file_hash
               IN IF ~IndexExists(faiss_cache, file_hash)
                  THEN gen' = GenerateFinished("404")
                  ELSE LET chunks == RetrieveAll(faiss_cache[file_hash], topic_list)
                       IN IF chunks = <<>>
                          THEN gen' = GenerateFinished("400")
                          ELSE gen' = [NewGenerate EXCEPT !.pc = "llm", !.topic_id = topic_id,
                                          !.topic_list = topic_list, !.num_questions = num_questions,
                                          !.co_tag_list = co_tag_list, !.chunks = chunks,
                                          !.context = merged_context(chunks)]
    /\ llm_calls' = IF gen'.pc = "llm" THEN llm_calls + 1 ELSE llm_calls
    /\ UNCHANGED <<session_cache, cache_tags, save_count, last_save>>
    /\ UNCHANGED <<uploadVars, quizVars, questionVars, chunkVars, reportVars, manageVars>>

QuestionsGetFirst(generated_data) ==
    IF generated_data # ParseFailed /\ "questions" \in DOMAIN generated_data
       /\ generated_data.questions # <<>>
    THEN <<generated_data.questions[1]>> ELSE <<>>

\* generated_data.get("questions", [])
QuestionsGet(generated_data) ==
    IF generated_data # ParseFailed /\ "questions" \in DOMAIN generated_data
    THEN generated_data.questions ELSE <<>>

\* generate_question lines 113-139: the backend answers, chain.run parses,
\* the list is cached in the session.  A finished request keeps the count
\* it asked for.
generate_question_respond(response) ==
    /\ gen.pc = "llm"
    /\ LET generated_data == MCQGeneratorChain_run(response)
           questions_list == QuestionsGet(generated_data)
       IN IF questions_list = <<>>
          THEN /\ gen' = [GenerateFinished("500") EXCEPT !.run_raised = (generated_data = ParseFailed)]
               /\ UNCHANGED <<session_cache, cache_tags>>
          ELSE /\ gen' = [GenerateFinished("success") EXCEPT
                              !.num_questions = gen.num_questions,
                              !.unfenced = (response.kind = "text"
                                  /\ clean_response(response.text) # strip_tokens(response.text))]
               /\ session_cache' = [t \in DOMAIN session_cache \cup {gen.topic_id} |->
                                       IF t = gen.topic_id THEN questions_list ELSE session_cache[t]]
               /\ cache_tags' = [t \in DOMAIN cache_tags \cup {gen.topic_id} |->
                                    IF t = gen.topic_id THEN Range(gen.co_tag_list) ELSE cache_tags[t]]
    /\ UNCHANGED <<gen_count, llm_calls, save_count, last_save>>
    /\ UNCHANGED <<uploadVars, quizVars, questionVars, chunkVars, reportVars, manageVars>>

\* model.generate_content(prompt) never returns: GeminiLLM._call passes no
\* timeout and nothing around chain.run cancels it, so the request stays
\* blocked inside self.llm.invoke.
backend_hangs ==
    /\ gen.pc = "llm"
    /\ gen' = [gen EXCEPT !.pc = "blocked"]
    /\ UNCHANGED <<session_cache, cache_tags, gen_count, llm_calls, save_count, last_save>>
    /\ UNCHANGED <<uploadVars, quizVars, questionVars, chunkVars, reportVars, manageVars>>

\* The loop of save_generated_questions over q_data, lines 22-41: the rows
\* to add, numbered from `next_id`.
RECURSIVE QuestionsToAdd(_, _, _, _)
QuestionsToAdd(questions_list, topic_id, user_id, next_id) ==
    IF questions_list = <<>> THEN {}
    ELSE LET q_data == Head(questions_list)
             question_text == strip(ItemGet(q_data.question, <<>>))
             options == ItemGet(q_data.options, <<>>)
         IN IF question_text = <<>> \/ options = <<>>
            THEN QuestionsToAdd(Tail(questions_list), topic_id, user_id, next_id)
            ELSE {[question_id |-> next_id, topic_id |-> topic_id, user_id |-> user_id,
                   question_text |-> question_text, options_json |-> json_dumps(options),
                   correct_answer |-> strip(ItemGet(q_data.correct_answer, <<>>)),
                   co_tag |-> strip(ItemGet(q_data.co_tag, CO1))]}
                 \cup QuestionsToAdd(Tail(questions_list), topic_id, user_id, next_id + 1)

\* `.strip()` on None raises AttributeError inside the loop; items skipped
\* at line 28 never reach the later .strip() calls.
RaisesInLoop(questions_list) ==
    \E i \in 1..Len(questions_list) :
        LET q_data == questions_list[i] IN
        \/ q_data.question = NULL
        \/ /\ strip(ItemGet(q_data.question, <<>>)) # <<>>
           /\ ItemGet(q_data.options, <<>>) # <<>>
           /\ (q_data.correct_answer = NULL \/ q_data.co_tag = NULL)

\* save_generated_questions_route with save_generated_questions inlined.
save_generated_questions_route(topic_id, questions_list) ==
    /\ save_count < MaxSaves
    /\ save_count' = save_count + 1
    /\ IF topic_id = 0 \/ questions_list = <<>>
       THEN /\ last_save' = [status |-> "error", saved |-> 0]
            /\ UNCHANGED <<questions, question_seq>>
       ELSE IF RaisesInLoop(questions_list)
       THEN /\ last_save' = [status |-> "Database error during save.", saved |-> 0]
            /\ UNCHANGED <<questions, question_seq>>
       ELSE LET rows == QuestionsToAdd(questions_list, topic_id, 9, question_seq + 1)
            IN /\ questions' = questions \cup rows
               /\ question_seq' = question_seq + Cardinality(rows)
               /\ last_save' = [status |-> "success", saved |-> Cardinality(rows)]
    /\ UNCHANGED <<session_cache, cache_tags, gen, gen_count, llm_calls>>
    /\ UNCHANGED <<uploadVars, quizVars, chunkVars, reportVars, manageVars>>

(***************************************************************************)
(* Analytics: CO mastery, course averages, recommendations, completion     *)
(***************************************************************************)
low_co_threshold == 60           \* routes/student/cilos.py line 13
DefaultTotalTopics == 10         \* Course.total_topics = Column(Integer, default=10)

\* The database as the views query it.
DB == [topics |-> topics, questions |-> questions, attempts |-> attempts,
       answers |-> answers, progress |-> progress, courses |-> courses]

\* Python round() of the fraction num / den (den > 0): the nearest integer,
\* a tie going to the even one.
round(num, den) ==
    LET q == num \div den
        r == num % den
    IN IF 2 * r < den THEN q
       ELSE IF 2 * r > den THEN q + 1
       ELSE IF q % 2 = 0 THEN q ELSE q + 1


\* Number of rows of the bag `table` among `rows`.
RECURSIVE CountRows(_, _)
CountRows(table, rows) ==
    IF rows = {} THEN 0
    ELSE LET r == CHOOSE x \in rows : TRUE
         IN table[r] + CountRows(table, rows \ {r})

\* dict.get(key, default)
DictGet(d, key, default) == IF key \in DOMAIN d THEN d[key] ELSE default

CountsCorrectAlways(ans) == TRUE

\* `ans.student_answer and ans.student_answer.strip().lower() ==
\* ans.correct_answer.strip().lower()`
CountsCorrect(ans) ==
    /\ ans.student_answer # <<>>
    /\ lower(strip(ans.student_answer)) = lower(strip(ans.correct_answer))

\* db.query(StudentAnswer).join(StudentQuizAttempt, ...) filtered by the
\* attempt's student and topic.
JoinedAnswers(db, student_ids, topic_ids) ==
    {r \in DOMAIN db.answers :
        \E a \in db.attempts : /\ a.id = r.attempt_id
                               /\ a.student_id \in student_ids
                               /\ a.topic_id \in topic_ids}

CourseTopicIds(db, course_id) == {t.id : t \in {x \in db.topics : x.course_id = course_id}}

\* Percentages whose totals are the questions now stored with the tag.
PercentByTagOfQuestions(db, rows) ==
    [co \in {r.co_tag : r \in rows} |->
        round(100 * CountRows(db.answers, {r \in rows : r.co_tag = co /\ CountsCorrect(r)}),
              Cardinality({q \in db.questions : q.co_tag = co}))]

\* {co: round((co_scores.get(co, 0) / co_counts[co]) * 100) for co in co_counts}
PercentByTag(db, rows) ==
    [co \in {r.co_tag : r \in rows} |->
        round(100 * CountRows(db.answers, {r \in rows : r.co_tag = co /\ CountsCorrect(r)}),
              CountRows(db.answers, {r \in rows : r.co_tag = co}))]

\* routes/student/cilos.get_co_progress_single_attempt; the two early
\* returns of {} are the empty mapping PercentByTag yields for no rows.
get_co_progress_single_attempt(db, student_id, course_id) ==
    PercentByTag(db, JoinedAnswers(db, {student_id}, CourseTopicIds(db, course_id)))

\* routes/student/cilos.get_topic_co_distribution: topic id -> CO tag ->
\* rounded percentage of the topic's questions carrying the tag; a topic
\* without questions has no entry.
get_topic_co_distribution(db, course_id) ==
    LET with_questions == {tid \in CourseTopicIds(db, course_id) :
                              \E q \in db.questions : q.topic_id = tid}
    IN [tid \in with_questions |->
          LET topic_questions == {q \in db.questions : q.topic_id = tid}
          IN [co \in {q.co_tag : q \in topic_questions} |->
                 round(100 * Cardinality({q \in topic_questions : q.co_tag = co}),
                       Cardinality(topic_questions))]]

\* The StudentCourseProgress count: rows of the student, on a topic of the
\* course, with completed = True.
completed_topics(db, student_id, course_id) ==
    CountRows(db.progress, {p \in DOMAIN db.progress :
                               /\ p.student_id = student_id
                               /\ p.topic_id \in CourseTopicIds(db, course_id)
                               /\ p.completed})

CourseRow(db, course_id) == CHOOSE c \in db.courses : c.id = course_id

CourseIdsOf(db) == {c.id : c \in db.courses}

NoReport == [view |-> "", student_id |-> 0, raised |-> "", courses_data |-> <<>>,
             co_progress |-> <<>>]


\* `co_percent >= 40`
Relevant(co_percent) == co_percent >= 40

\* The body of the loop `for course in courses` of view_cilos_student,
\* lines 108-176.
student_course_data(db, student_id, course_id) ==
    LET course == CourseRow(db, course_id)
        co_progress_dict == get_co_progress_single_attempt(db, student_id, course_id)
        topic_distribution == get_topic_co_distribution(db, course_id)
        low_cos == {c \in course.cilos : DictGet(co_progress_dict, c, 0) < low_co_threshold}
    IN [cilos |-> [c \in course.cilos |-> DictGet(co_progress_dict, c, 0)],
        co_progress_dict |-> co_progress_dict,
        low_cos |-> low_cos,
        recommendations |->
            [c \in low_cos |->
                {tid \in CourseTopicIds(db, course_id) :
                    Relevant(DictGet(DictGet(topic_distribution, tid, <<>>), c, 0))}],
        course_progress |-> round(100 * completed_topics(db, student_id, course_id),
                                  course.total_topics)]

\* GET /student/cilos.  `completed_topics / total_topics` raises
\* ZeroDivisionError for a course whose total_topics is 0; the page then
\* fails as a whole.
view_cilos_student(student_id) ==
    /\ report' =
         IF \E c \in courses : c.total_topics = 0
         THEN [NoReport EXCEPT !.view = "student", !.student_id = student_id,
                               !.raised = "ZeroDivisionError"]
         ELSE [NoReport EXCEPT !.view = "student", !.student_id = student_id,
                  !.courses_data = [c \in CourseIdsOf(DB) |-> student_course_data(DB, student_id, c)]]
    /\ UNCHANGED courses
    /\ UNCHANGED <<uploadVars, quizVars, genVars, questionVars, chunkVars, manageVars>>

\* Sum and number of the values of a mapping, for the mean below.
RECURSIVE SumOver(_, _)
SumOver(f, keys) ==
    IF keys = {} THEN 0
    ELSE LET k == CHOOSE x \in keys : TRUE IN f[k] + SumOver(f, keys \ {k})

\* The rows the faculty aggregation counts: `if not co: continue`.
TaggedRows(rows) == {r \in rows : r.co_tag # <<>>}

StudentsOf(db, rows) ==
    {a.student_id : a \in {x \in db.attempts : \E r \in rows : r.attempt_id = x.id}}

RowsOfStudent(db, rows, student_id) ==
    {r \in rows : \E a \in db.attempts : a.id = r.attempt_id /\ a.student_id = student_id}

\* per_student_co, lines 48-65.
per_student_co(db, rows) ==
    [student_id \in StudentsOf(db, rows) |->
        PercentByTag(db, TaggedRows(RowsOfStudent(db, rows, student_id)))]

\* The mean of the per-student percentages of each tag.
course_co_avg_of_means(db, rows) ==
    LET per == per_student_co(db, rows)
    IN [co \in {r.co_tag : r \in TaggedRows(rows)} |->
          LET having == {sid \in DOMAIN per : co \in DOMAIN per[sid]}
          IN round(SumOver([sid \in having |-> per[sid][co]], having), Cardinality(having))]

\* course_co_avg, lines 61-62 and 68: all_co_corrects / all_co_totals run
\* over every counted answer of the course.
course_co_avg(db, rows) == PercentByTag(db, TaggedRows(rows))

\* routes/faculty/cilos.get_course_and_student_co_progress.
get_course_and_student_co_progress(db, course_id) ==
    LET rows == JoinedAnswers(db, {a.student_id : a \in db.attempts}, CourseTopicIds(db, course_id))
    IN IF rows = {}
       THEN [per_student_co |-> <<>>, course_co_avg |-> <<>>]
       ELSE [per_student_co |-> per_student_co(db, rows), course_co_avg |-> course_co_avg(db, rows)]

\* The body of the loop `for course in courses` of view_cilos_faculty,
\* lines 90-124; `students` are the users with role "student".
faculty_course_data(db, course_id) ==
    LET progress_of == get_course_and_student_co_progress(db, course_id)
        total_topics == CourseRow(db, course_id).total_topics
        low_cos(student_id) ==
            LET student_cos == DictGet(progress_of.per_student_co, student_id, <<>>)
            IN {co \in DOMAIN student_cos : student_cos[co] < 60}
    IN [per_student_co |-> progress_of.per_student_co,
        co_avg |-> progress_of.course_co_avg,
        intervention_students |->
            [student_id \in {x \in StudentIds : low_cos(x) # {}} |->
                [course_progress |-> round(100 * completed_topics(db, student_id, course_id),
                                           total_topics),
                 low_cos |-> low_cos(student_id)]]]

\* GET /faculty/cilos for the instructor of the courses.
view_cilos_faculty ==
    /\ report' =
         IF \E c \in courses : c.total_topics = 0
         THEN [NoReport EXCEPT !.view = "faculty", !.raised = "ZeroDivisionError"]
         ELSE [NoReport EXCEPT !.view = "faculty",
                  !.courses_data = [c \in CourseIdsOf(DB) |-> faculty_course_data(DB, c)]]
    /\ UNCHANGED courses
    /\ UNCHANGED <<uploadVars, quizVars, genVars, questionVars, chunkVars, manageVars>>

\* `(StudentAnswer.student_answer == StudentAnswer.correct_answer).cast(Integer)`
ColumnsEqual(ans) == ans.student_answer = ans.correct_answer

\* routes/student/dashboard.compute_student_co_progress: one group per
\* co_tag over all of the student's answers; labels/values as a mapping.
compute_student_co_progress(db, student_id) ==
    LET rows == JoinedAnswers(db, {student_id}, {a.topic_id : a \in db.attempts})
    IN [co \in {r.co_tag : r \in TaggedRows(rows)} |->
          round(100 * CountRows(db.answers, {r \in rows : r.co_tag = co /\ ColumnsEqual(r)}),
                CountRows(db.answers, {r \in rows : r.co_tag = co}))]

\* `round((completed_topics / course.total_topics) * 100) if
\* course.total_topics else 0`
overall_progress(db, student_id, course_id) ==
    LET total_topics == CourseRow(db, course_id).total_topics
    IN IF total_topics # 0
       THEN round(100 * completed_topics(db, student_id, course_id), total_topics)
       ELSE 0

\* GET /student/dashboard.
student_dashboard(student_id) ==
    /\ report' = [NoReport EXCEPT !.view = "dashboard", !.student_id = student_id,
                     !.courses_data = [c \in CourseIdsOf(DB) |->
                                          [progress |-> overall_progress(DB, student_id, c)]],
                     !.co_progress = compute_student_co_progress(DB, student_id)]
    /\ UNCHANGED courses
    /\ UNCHANGED <<uploadVars, quizVars, genVars, questionVars, chunkVars, manageVars>>

(***************************************************************************)
(* Initial states and specifications                                       *)
(***************************************************************************)
Fingerprints == {calculate_file_hash(c) : c \in Contents}

InitUploadVars ==
    /\ faiss_cache = <<>>
    /\ index_builds = [h \in Fingerprints |-> 0]
    /\ documents = {}
    /\ topics = {}
    /\ topic_seq = 0
    /\ upload_dir = <<>>
    /\ uploads = [u \in UploadIds |-> NewUpload]

InitQuizVars ==
    /\ now = 0
    /\ attempts = {}
    /\ attempt_seq = 0
    /\ answers = EmptyBag
    /\ co_perf = EmptyBag
    /\ progress = EmptyBag
    /\ opens = [o \in OpenIds |-> NewOpen]
    /\ sub = NewSubmit
    /\ submit_count = 0

InitGenVars ==
    /\ session_cache = <<>>
    /\ cache_tags = <<>>
    /\ gen = NewGenerate
    /\ gen_count = 0
    /\ llm_calls = 0
    /\ save_count = 0
    /\ last_save = NoSave

InitQuestionVars ==
    /\ questions = {}
    /\ question_seq = 0

InitChunkVars == chunk_call = NewChunkCall

\* One course as the schema seeds it, no report computed yet.
DefaultCourses == {[id |-> 1, total_topics |-> DefaultTotalTopics, cilos |-> COURSE_OUTCOMES]}

InitReportVars ==
    /\ courses = DefaultCourses
    /\ report = NoReport

InitManageVars == manage = NoManage

\* The server right after start-up with an empty database and cache.
Init == InitUploadVars /\ InitQuizVars /\ InitGenVars /\ InitQuestionVars /\ InitChunkVars
        /\ InitReportVars /\ InitManageVars

NextUpload ==
    \/ \E u \in UploadIds, f \in FileNames, c \in Contents : upload_pdf_begin(u, f, c)
    \/ \E u \in UploadIds, f \in FileNames, c \in Contents, k \in CourseIds, n \in TopicNos :
          upload_topic_begin(u, f, c, k, n)
    \/ \E u \in UploadIds : upload_check_index(u)
    \/ \E u \in UploadIds : get_or_create_vector_store(u)
    \/ \E u \in UploadIds : vector_store_save_local(u)
    \/ \E u \in UploadIds : save_document(u)
    \/ \E u \in UploadIds : upload_pdf_respond(u)
    \/ \E u \in UploadIds : upload_topic_store(u)

\* Concurrent upload requests against an empty cache.
Spec == Init /\ [][NextUpload]_vars

\* Faculty of two courses uploading, replacing and deleting topics.
ManagedCourseIds == {1, 2}
ManagedTopicIds == {1, 2}
NextManage ==
    \/ \E u \in UploadIds, f \in FileNames, c \in Contents, k \in ManagedCourseIds, n \in TopicNos :
          upload_topic_begin(u, f, c, k, n)
    \/ \E u \in UploadIds : upload_check_index(u)
    \/ \E u \in UploadIds : get_or_create_vector_store(u)
    \/ \E u \in UploadIds : vector_store_save_local(u)
    \/ \E u \in UploadIds : upload_topic_store(u)
    \/ \E t \in ManagedTopicIds, given \in BOOLEAN, f \in FileNames, c \in Contents :
          update_topic(t, given, f, c)
    \/ \E t \in ManagedTopicIds : delete_topic(t)

InitManage ==
    /\ InitUploadVars /\ InitQuizVars /\ InitGenVars /\ InitQuestionVars /\ InitChunkVars
    /\ InitManageVars
    /\ courses = {[id |-> c, total_topics |-> DefaultTotalTopics, cilos |-> COURSE_OUTCOMES]
                     : c \in ManagedCourseIds}
    /\ report = NoReport

SpecManage == InitManage /\ [][NextManage]_vars

\* A course whose topic has been uploaded and whose questions have been saved.
InitQuiz ==
    /\ InitQuizVars /\ InitGenVars /\ InitChunkVars /\ InitReportVars /\ InitManageVars
    /\ faiss_cache = (calculate_file_hash(<<1>>) :> [docs |-> load_and_chunk(<<1>>, "u1"), builder |-> "u1"])
    /\ index_builds = [h \in Fingerprints |-> IF h = calculate_file_hash(<<1>>) THEN 1 ELSE 0]
    /\ documents = {}
    /\ topics = QuizTopics
    /\ topic_seq = 1
    /\ upload_dir = ([stem |-> "a", ext |-> "pdf"] :> <<1>>)
    /\ uploads = [u \in UploadIds |-> NewUpload]
    /\ questions \in QuestionBanks
    /\ question_seq = 2

NextQuiz ==
    \/ Tick
    \/ \E o \in OpenIds, s \in StudentIds, t \in QuizTopicIds : get_quiz_for_student(o, s, t)
    \/ \E o \in OpenIds : get_quiz_commit(o)
    \/ \E s \in StudentIds, t \in QuizTopicIds, a \in 0..(attempt_seq + 1), p \in Payloads :
          submit_quiz(s, t, a, p)
    \/ submit_score
    \/ submit_progress
    \/ submit_co_perf
    \/ submit_fail

\* Students opening and submitting quizzes while the clock runs.
SpecQuiz == InitQuiz /\ [][NextQuiz]_vars

\* A faculty session over an uploaded, indexed topic with no questions yet.
InitGen ==
    /\ InitQuizVars /\ InitGenVars /\ InitQuestionVars /\ InitChunkVars /\ InitReportVars /\ InitManageVars
    /\ faiss_cache = (calculate_file_hash(<<1>>) :> [docs |-> load_and_chunk(<<1>>, "u1"), builder |-> "u1"])
    /\ index_builds = [h \in Fingerprints |-> IF h = calculate_file_hash(<<1>>) THEN 1 ELSE 0]
    /\ documents = {}
    /\ topics = QuizTopics
    /\ topic_seq = 1
    /\ upload_dir = ([stem |-> "a", ext |-> "pdf"] :> <<1>>)
    /\ uploads = [u \in UploadIds |-> NewUpload]

\* The page posts back the list generate returned for the topic; a request
\* may also lack the topic id or carry no questions.
NextGen ==
    \/ \E t \in QuizTopicIds, ts \in TopicInputs, n \in QuestionCounts, cs \in TagInputs :
          generate_question(t, ts, n, cs)
    \/ \E r \in Responses : generate_question_respond(r)
    \/ backend_hangs
    \/ \E t \in DOMAIN session_cache \cup {0}, empty \in BOOLEAN :
          save_generated_questions_route(t,
              IF empty \/ t \notin DOMAIN session_cache THEN <<>> ELSE session_cache[t])

SpecGen == InitGen /\ [][NextGen]_vars

\* The generate handler alone: requests and the backend's answers.
NextGenerate ==
    \/ \E t \in QuizTopicIds, ts \in TopicInputs, n \in QuestionCounts, cs \in TagInputs :
          generate_question(t, ts, n, cs)
    \/ \E r \in Responses : generate_question_respond(r)
    \/ backend_hangs

SpecGenerate == InitGen /\ [][NextGenerate]_vars

\* A backend that has not hung does answer; the handler runs on as soon as
\* self.llm.invoke returns.
SpecGenerateLive ==
    SpecGenerate /\ WF_vars(\E r \in Responses : generate_question_respond(r))

\* A topic whose document was indexed as MaxIndexed chunks of different text.
MaxIndexed == 3
InitRetrieve ==
    /\ InitQuizVars /\ InitGenVars /\ InitQuestionVars /\ InitChunkVars /\ InitReportVars /\ InitManageVars
    /\ faiss_cache = (calculate_file_hash(<<1>>) :>
                         [docs |-> [i \in 1..MaxIndexed |-> [page_content |-> i, document_uuid |-> "u1"]],
                          builder |-> "u1"])
    /\ index_builds = [h \in Fingerprints |-> IF h = calculate_file_hash(<<1>>) THEN 1 ELSE 0]
    /\ documents = {}
    /\ topics = QuizTopics
    /\ topic_seq = 1
    /\ upload_dir = ([stem |-> "a", ext |-> "pdf"] :> <<1>>)
    /\ uploads = [u \in UploadIds |-> NewUpload]

\* Generate requests over that index.
SpecRetrieve == InitRetrieve /\ [][NextGenerate]_vars

\* The chunk lists a caller can pass as docs.
DocsInputs == {<<>>} \cup {load_and_chunk(c, "u1") : c \in Contents}

\* Callers of get_or_create_vector_store with and without docs, over any
\* index path.
NextIndex ==
    \/ \E u \in UploadIds, h \in Fingerprints, given \in BOOLEAN, docs \in DocsInputs :
          index_call(u, h, given, IF given THEN docs ELSE <<>>)
    \/ \E u \in UploadIds : get_or_create_vector_store(u)
    \/ \E u \in UploadIds : vector_store_save_local(u)

SpecIndex == Init /\ [][NextIndex]_vars

\* load_and_chunk called with any page, chunk size and overlap.
InitChunk ==
    /\ InitUploadVars /\ InitQuizVars /\ InitGenVars /\ InitQuestionVars /\ InitReportVars /\ InitManageVars
    /\ chunk_call \in ChunkCalls

NextChunk == load_and_chunk_call

SpecChunk == InitChunk /\ [][NextChunk]_vars

\* ---- analytics over a database that quizzes have filled ----
BigTopicSize == 43               \* questions of the large topic
BigTopicTagged == 17             \* of which tagged CO1

TopicRow(id, course_id, topic_no, stem) ==
    [id |-> id, course_id |-> course_id, topic_no |-> topic_no,
     file_name |-> [stem |-> stem, ext |-> "pdf"], file_path |-> [stem |-> stem, ext |-> "pdf"],
     file_hash |-> calculate_file_hash(<<1>>), document_uuid |-> "u1"]

\* Topics 1 and 2 belong to course 1, topic 3 to course 2.
ReportTopics == {TopicRow(1, 1, 1, "a"), TopicRow(2, 1, 2, "b"), TopicRow(3, 2, 1, "a")}

QuestionRow(question_id, topic_id, correct_answer, co_tag) ==
    [question_id |-> question_id, topic_id |-> topic_id, user_id |-> 9, question_text |-> <<"q">>,
     options_json |-> json_dumps(FourOptions), correct_answer |-> correct_answer, co_tag |-> co_tag]

Bank1 == {QuestionRow(1, 1, <<"A">>, CO1), QuestionRow(2, 1, <<"b">>, CO2)}
Bank2 == {QuestionRow(3, 2, <<"A">>, CO1), QuestionRow(5, 2, <<"b">>, CO1)}
Bank3 == {QuestionRow(4, 3, <<"b">>, CO2)}
BigBank == {QuestionRow(100 + i, 2, <<"A">>, IF i <= BigTopicTagged THEN CO1 ELSE CO2)
               : i \in 1..BigTopicSize}
Topic2Banks == {{}, Bank2, BigBank}

\* What a student posts for every question shown: " a", "B" or "A".
ReportPayloads == << [q \in 1..5 |-> <<" ", "a">>], [q \in 1..5 |-> <<"B">>], [q \in 1..5 |-> <<"A">>] >>

\* The (student, topic) pairs that may have a submitted attempt.
Slots == {<<1, 1>>, <<1, 2>>, <<1, 3>>, <<2, 1>>, <<2, 2>>}

SlotAttemptId(slot) == 10 * slot[1] + slot[2]

\* The attempt row after get_quiz_for_student and a successful submit_quiz.
SubmittedAttempt(slot, payload, qs) ==
    LET topic_questions == {q \in qs : q.topic_id = slot[2]}
    IN ScoredAttempt([id |-> SlotAttemptId(slot), student_id |-> slot[1], topic_id |-> slot[2],
                      start_time |-> 0, end_time |-> QuizDuration, submitted |-> FALSE,
                      score |-> 0, total_questions |-> 0, attempt_number |-> 1],
                     Cardinality({q \in topic_questions : IsCorrect(payload, q)}),
                     Cardinality(topic_questions))

SubmittedAnswers(slot, payload, qs) ==
    {AnswerRecord(SlotAttemptId(slot), payload, q) : q \in {x \in qs : x.topic_id = slot[2]}}

SubmittedProgress(slot) ==
    [student_id |-> slot[1], topic_id |-> slot[2], viewed |-> TRUE, viewed_at |-> 0,
     completed |-> TRUE, completed_at |-> 0]

SubmittedCOPerf(slot, payload, qs) ==
    LET topic_questions == {q \in qs : q.topic_id = slot[2]}
    IN {COPerfRow(slot[1], slot[2], SlotAttemptId(slot), payload, topic_questions, co)
           : co \in {q.co_tag : q \in topic_questions}}

TotalTopicsValues == {0, 1, DefaultTotalTopics}

\* The tables after the students of `choice` have each taken and submitted
\* their quizzes (choice[slot] = 0: not taken, else the payload posted).
TablesAfterQuizzes(bank2, choice, total_topics) ==
    LET qs == Bank1 \cup bank2 \cup Bank3
        taken == {slot \in Slots : choice[slot] # 0}
    IN /\ questions = qs
       /\ question_seq = 100 + BigTopicSize
       /\ attempts = {SubmittedAttempt(slot, ReportPayloads[choice[slot]], qs) : slot \in taken}
       /\ attempt_seq = 23
       /\ answers = SetToBag(UNION {SubmittedAnswers(slot, ReportPayloads[choice[slot]], qs)
                                       : slot \in taken})
       /\ progress = SetToBag({SubmittedProgress(slot) : slot \in taken})
       /\ co_perf = SetToBag(UNION {SubmittedCOPerf(slot, ReportPayloads[choice[slot]], qs)
                                       : slot \in taken})
       /\ courses = {[id |-> 1, total_topics |-> total_topics, cilos |-> COURSE_OUTCOMES],
                     [id |-> 2, total_topics |-> DefaultTotalTopics, cilos |-> COURSE_OUTCOMES]}

InitReport ==
    /\ InitGenVars /\ InitChunkVars /\ InitManageVars
    /\ faiss_cache = (calculate_file_hash(<<1>>) :> [docs |-> load_and_chunk(<<1>>, "u1"), builder |-> "u1"])
    /\ index_builds = [h \in Fingerprints |-> IF h = calculate_file_hash(<<1>>) THEN 1 ELSE 0]
    /\ documents = {}
    /\ topics = ReportTopics
    /\ topic_seq = 3
    /\ upload_dir = ([stem |-> "a", ext |-> "pdf"] :> <<1>> @@ [stem |-> "b", ext |-> "pdf"] :> <<1>>)
    /\ uploads = [u \in UploadIds |-> NewUpload]
    /\ now = MaxTime
    /\ opens = [o \in OpenIds |-> NewOpen]
    /\ sub = NewSubmit
    /\ submit_count = 0
    /\ report = NoReport
    /\ \E bank2 \in Topic2Banks, choice \in [Slots -> 0..Len(ReportPayloads)],
          total_topics \in TotalTopicsValues :
          TablesAfterQuizzes(bank2, choice, total_topics)

NextReport ==
    \/ \E s \in StudentIds : view_cilos_student(s)
    \/ view_cilos_faculty
    \/ \E s \in StudentIds : student_dashboard(s)

\* The analytics pages opened over a database that quizzes have filled.
SpecReport == InitReport /\ [][NextReport]_vars

\* Lists posted to /save_questions: one well-formed item tagged CO2, or one
\* item with three options tagged CO1.
CurateBatches == {<<i>> : i \in CoreItems}

\* Student 1 has taken quizzes; the course keeps its default configuration.
InitCurate ==
    /\ InitGenVars /\ InitChunkVars /\ InitManageVars
    /\ faiss_cache = (calculate_file_hash(<<1>>) :> [docs |-> load_and_chunk(<<1>>, "u1"), builder |-> "u1"])
    /\ index_builds = [h \in Fingerprints |-> IF h = calculate_file_hash(<<1>>) THEN 1 ELSE 0]
    /\ documents = {}
    /\ topics = ReportTopics
    /\ topic_seq = 3
    /\ upload_dir = ([stem |-> "a", ext |-> "pdf"] :> <<1>> @@ [stem |-> "b", ext |-> "pdf"] :> <<1>>)
    /\ uploads = [u \in UploadIds |-> NewUpload]
    /\ now = MaxTime
    /\ opens = [o \in OpenIds |-> NewOpen]
    /\ sub = NewSubmit
    /\ submit_count = 0
    /\ report = NoReport
    /\ \E choice \in [Slots -> 0..Len(ReportPayloads)] :
          /\ \A slot \in Slots : slot[1] # 1 => choice[slot] = 0
          /\ TablesAfterQuizzes(Bank2, choice, DefaultTotalTopics)

NextCurate ==
    \E t \in {x.id : x \in topics}, b \in CurateBatches : save_generated_questions_route(t, b)

\* The instructor saves further questions after quizzes were submitted.
SpecCurate == InitCurate /\ [][NextCurate]_vars

(***************************************************************************)
(* Properties: upload and index                                            *)
(***************************************************************************)

\* C1: an upload of bytes B that arrives after an upload of the same bytes
\* has completed gets the same fingerprint, reports a cache hit, builds no
\* index and writes none, and completes; the index stays at that fingerprint.
C1_ReuploadIsCacheHit ==
    \A u \in UploadIds :
        uploads[u].prior # {} =>
            /\ \A v \in uploads[u].prior : uploads[v].file_hash = uploads[u].file_hash
            /\ uploads[u].file_hash \in DOMAIN faiss_cache
            /\ ~uploads[u].built /\ ~uploads[u].wrote
            /\ index_builds[uploads[u].file_hash] = 1
            /\ uploads[u].pc # "check" => IsCacheHit(uploads[u].faiss_action)
            /\ uploads[u].pc = "done" => uploads[u].result = "success"

\* A completed re-upload of the same bytes under another file name.
C1_Witness ==
    \E u \in UploadIds :
        /\ uploads[u].pc = "done" /\ uploads[u].result = "success"
        /\ \E v \in uploads[u].prior : uploads[v].file_name # uploads[u].file_name
        /\ uploads[u].faiss_action = "loaded_from_cache"

\* C2: whatever the interleaving of concurrent first uploads, at most one
\* full index build happens per fingerprint.
C2_AtMostOneBuild == \A h \in Fingerprints : index_builds[h] <= 1

(***************************************************************************)
(* Properties: quiz                                                        *)
(***************************************************************************)
SubmitTables == <<answers, co_perf, progress, attempts>>

\* Number of StudentAnswer rows of an attempt for a question.
AnswerCount(attempt_id, question_id) ==
    BagCardinality([row \in {r \in DOMAIN answers :
        r.attempt_id = attempt_id /\ r.question_id = question_id} |-> answers[row]])

\* C3: at most one QuizAttempt per (student, topic) in every reachable state.
C3_OneAttemptPerStudentTopic ==
    \A a, b \in attempts :
        (a.student_id = b.student_id /\ a.topic_id = b.topic_id) => a = b

\* C4: a submit that finds the server clock past the attempt's end_time is
\* rejected as expired and changes no StudentAnswer, COPerformance,
\* CourseProgress or QuizAttempt row.
C4_ExpiredSubmitRejected ==
    [][\A s \in StudentIds, t \in QuizTopicIds, p \in Payloads \ {<<>>} :
         \A a \in attempts :
            (submit_quiz(s, t, a.id, p) /\ a.student_id = s /\ a.topic_id = t
                /\ now > a.end_time)
            => (sub'.result = "expired" /\ sub'.pc = "done" /\ UNCHANGED SubmitTables)]_vars

\* An expired submit was rejected while answers of an earlier submit exist.
C4_Witness ==
    /\ sub.pc = "done" /\ sub.result = "expired"
    /\ answers # EmptyBag
    /\ \E a \in attempts : a.submitted /\ now > a.end_time

\* C5: from the scoring commit of a submit onward, the attempt has exactly
\* one StudentAnswer per question of its topic and none for other questions.
C5_OneAnswerPerQuestion ==
    sub.pc \in {"progress", "co_perf"} =>
        /\ \A q \in questions :
              AnswerCount(sub.attempt_id, q.question_id)
                  = IF q.topic_id = sub.topic_id THEN 1 ELSE 0
        /\ \A row \in BagToSet(answers) :
              row.attempt_id = sub.attempt_id =>
                 \E q \in questions : q.topic_id = sub.topic_id /\ q.question_id = row.question_id

\* A resubmission (the attempt already had answers) over a two-question topic.
C5_Witness ==
    /\ sub.pc = "co_perf"
    /\ \E row \in BagToSet(sub.pre.answers) : row.attempt_id = sub.attempt_id
    /\ Cardinality({q \in questions : q.topic_id = sub.topic_id}) = 2

\* C6: a submit that fails after it started writing leaves the tables as
\* they were before it began.
C6_FailedSubmitRestores ==
    [][(sub.pc \in {"score", "progress", "co_perf"} /\ sub'.pc = "done" /\ sub'.result = "error")
       => /\ answers' = sub.pre.answers
          /\ co_perf' = sub.pre.co_perf
          /\ progress' = sub.pre.progress
          /\ {a \in attempts' : a.id = sub.attempt_id}
                = {a \in sub.pre.attempts : a.id = sub.attempt_id}]_vars

\* C7 (as stated): once an attempt is submitted (by a submit that ran to
\* completion, so that its CO rows exist) its row never changes again.
C7_NeverMutatedAgain ==
    [][\A a \in attempts :
         (a.submitted /\ \E r \in BagToSet(co_perf) : r.attempt_id = a.id)
         => a \in attempts']_vars

\* C7 (amended): once submitted an attempt stays submitted, and its score
\* and total_questions change only at the scoring commit of a later submit
\* for that attempt, which overwrites them with the recomputed values.
C7_MutatedOnlyByResubmit ==
    [][\A a \in attempts : a.submitted =>
         \E b \in attempts' :
            /\ b.id = a.id /\ b.submitted
            /\ b.student_id = a.student_id /\ b.topic_id = a.topic_id
            /\ b.start_time = a.start_time /\ b.end_time = a.end_time
            /\ (b.score # a.score \/ b.total_questions # a.total_questions) =>
                  /\ sub.pc = "score" /\ sub.attempt_id = a.id /\ sub'.pc = "progress"
                  /\ b.total_questions = Cardinality({q \in questions : q.topic_id = a.topic_id})
                  /\ b.score = Cardinality({q \in questions :
                                   q.topic_id = a.topic_id /\ IsCorrect(sub.answers, q)})]_vars

\* A second submit has just replaced the score of a submitted attempt.
C7_Witness ==
    /\ sub.pc = "progress"
    /\ \E a \in attempts, b \in sub.pre.attempts :
          /\ a.id = sub.attempt_id /\ b.id = a.id
          /\ b.submitted /\ b.score > 0 /\ a.score # b.score

\* C8: once CourseProgress.completed is true for (student, topic) it stays
\* true, completed_at never changes again and viewed stays true.
C8_CompletedOnce ==
    [][\A p \in BagToSet(progress) : p.completed =>
         \E r \in BagToSet(progress') :
            /\ r.student_id = p.student_id /\ r.topic_id = p.topic_id
            /\ r.completed /\ r.viewed /\ r.completed_at = p.completed_at]_vars

(***************************************************************************)
(* Properties: generated questions                                         *)
(***************************************************************************)
\* C9: every persisted GeneratedQuestion has non-empty text, exactly four
\* options and a correct_answer equal, ignoring case, to one of them.
C9_PersistedQuestionsValid ==
    \A q \in questions :
        LET options == json_loads(q.options_json) IN
        /\ q.question_text # <<>>
        /\ Len(options) = 4
        /\ \E i \in 1..Len(options) : lower(options[i]) = lower(q.correct_answer)

\* C10: a question persisted from the list a generate request with CO tags
\* T returned carries a co_tag in T and in CO1/CO2/CO3.
C10_TagWithinRequested ==
    [][\A q \in questions' \ questions :
          q.topic_id \in DOMAIN cache_tags =>
             (q.co_tag \in cache_tags[q.topic_id] /\ q.co_tag \in COURSE_OUTCOMES)]_vars

\* C11: a generate request with an empty topic list, an empty CO-tag list or
\* a question count outside 1..20 is rejected with the validation error (HTTP
\* 400); no backend call is issued and the session cache, the stored
\* questions and the index cache are unchanged.
C11_InvalidGenerateRejected ==
    [][gen_count' # gen_count =>
       \A t \in QuizTopicIds, ts \in TopicInputs, n \in QuestionCounts, cs \in TagInputs :
         (generate_question(t, ts, n, cs)
            /\ (\/ \A i \in 1..Len(ts) : \A j \in 1..Len(ts[i]) : ts[i][j] = " "
                \/ \A i \in 1..Len(cs) : \A j \in 1..Len(cs[i]) : cs[i][j] = " "
                \/ n < 1 \/ n > 20))
         => /\ gen'.pc = "done" /\ gen'.result = "400"
            /\ llm_calls' = llm_calls
            /\ UNCHANGED <<session_cache, questions, faiss_cache>>]_vars

\* A request was rejected while the session cache of an earlier request exists.
C11_Witness ==
    /\ gen.pc = "done" /\ gen.result = "400"
    /\ session_cache # <<>>
    /\ llm_calls = 1 /\ gen_count = 2

\* The backend call failed, or the text it returned is not one JSON document
\* once stripped and unfenced.
Unparseable(response) ==
    \/ response.kind = "error"
    \/ /\ response.kind = "text"
       /\ ~(Len(clean_response(response.text)) = 1 /\ IsJson(clean_response(response.text)[1]))

UnparseableResponses == {r \in Responses : Unparseable(r)}

\* The data a parseable response carries.
ParsedData(response) ==
    IF response.kind = "dict" THEN response.data ELSE clean_response(response.text)[1].data

\* C12: when the backend call fails or its payload is unparseable, generate
\* reports the generation failure (HTTP 500), caches nothing for the topic
\* and persists nothing; a request succeeds only with a payload that parsed
\* as a whole, and then caches exactly the parsed question list.
C12_AllOrNothing ==
    [][(gen.pc = "llm" /\ gen'.pc = "done") =>
       /\ \A r \in UnparseableResponses :
             generate_question_respond(r) =>
               (gen'.result = "500" /\ UNCHANGED <<session_cache, questions>>)
       /\ gen'.result = "success" =>
             \A r \in Responses \ UnparseableResponses :
                ("questions" \notin DOMAIN ParsedData(r)
                    \/ session_cache'[gen.topic_id] # ParsedData(r).questions)
                => ~generate_question_respond(r)]_vars

\* chain.run raised while the list of an earlier generate is in the cache.
C12_Witness ==
    /\ gen.pc = "done" /\ gen.result = "500" /\ gen.run_raised
    /\ session_cache # <<>>
    /\ questions = {}

\* Text responses made of the sample payload behind and before fences.
FencedResponses(tags) ==
    {[kind |-> "text", data |-> NoData, text |-> t] : t \in FencedTexts(SamplePayload, tags)}

AnyFencedResponses == FencedResponses(LanguageTags)

JsonFencedResponses == FencedResponses({TagJson})

\* Text responses that are no JSON document even without fences, json tags
\* and white space.
GarbledResponses ==
    {r \in Responses :
        /\ r.kind = "text"
        /\ \A i \in 1..Len(r.text) :
              ~IsJson(r.text[i])
              \/ \E j \in 1..Len(r.text) : j # i /\ r.text[j] \notin {Fence, Blank, TagJson}}

\* C13 (as stated): every text response that is a well-formed payload behind
\* a leading fence, optionally followed by a language tag, and/or before a
\* trailing fence is unfenced and parsed, and generate returns its questions.
C13_FencesStripped ==
    [][(gen.pc = "llm" /\ gen'.pc = "done") =>
       \A r \in AnyFencedResponses :
          generate_question_respond(r)
          => (gen'.result = "success"
              /\ session_cache'[gen.topic_id] = SamplePayload.questions)]_vars

\* C13 (amended): the same for every such response whose language tag, if
\* any, is `json`; and every text response whose remainder after stripping
\* is not one JSON document makes chain.run raise, and generate returns no
\* questions.
C13_JsonFencesStripped ==
    [][(gen.pc = "llm" /\ gen'.pc = "done") =>
       /\ \A r \in JsonFencedResponses :
            generate_question_respond(r)
            => (gen'.result = "success"
                /\ session_cache'[gen.topic_id] = SamplePayload.questions)
       /\ \A r \in GarbledResponses :
            generate_question_respond(r)
            => (gen'.result = "500" /\ gen'.run_raised /\ UNCHANGED session_cache)]_vars

\* A fenced response has been unfenced, parsed and cached.
C13_Witness ==
    /\ gen.pc = "done" /\ gen.result = "success" /\ gen.unfenced
    /\ \E t \in DOMAIN session_cache : session_cache[t] = SamplePayload.questions

\* Responses that parse to a payload with a `questions` list of k items.
CountedResponses(k) ==
    {r \in Responses \ UnparseableResponses :
        "questions" \in DOMAIN ParsedData(r) /\ Len(ParsedData(r).questions) = k}

\* C14 (as stated): when the backend returns k questions, k different from
\* the requested number, generate succeeds, returns exactly those k
\* questions and issues no further backend call.
C14_CountMismatchReturned ==
    [][(gen.pc = "llm" /\ gen'.pc = "done") =>
       \A k \in (0..MaxBatch) \ {gen.num_questions} : \A r \in CountedResponses(k) :
          generate_question_respond(r)
          => /\ gen'.result = "success"
             /\ session_cache'[gen.topic_id] = ParsedData(r).questions
             /\ llm_calls' = llm_calls]_vars

\* C14 (amended): the same for every k >= 1; a response without questions
\* (k = 0) is reported as a generation failure.
C14_NonEmptyMismatchReturned ==
    [][(gen.pc = "llm" /\ gen'.pc = "done") =>
       /\ \A k \in (1..MaxBatch) \ {gen.num_questions} : \A r \in CountedResponses(k) :
             generate_question_respond(r)
             => /\ gen'.result = "success"
                /\ session_cache'[gen.topic_id] = ParsedData(r).questions
                /\ llm_calls' = llm_calls
       /\ \A r \in CountedResponses(0) :
             generate_question_respond(r)
             => (gen'.result = "500" /\ llm_calls' = llm_calls /\ UNCHANGED session_cache)]_vars

\* A request for two questions returned the single question the backend made.
C14_Witness ==
    /\ gen.pc = "done" /\ gen.result = "success" /\ gen.num_questions = 2
    /\ Len(session_cache[1]) = 1
    /\ llm_calls = gen_count

\* C15: every generate request that reached the backend call eventually
\* completes, also when the backend never responds.
C15_GenerateCompletes == (gen.pc = "llm") ~> (gen.pc = "done")

\* C16: every chunking call with overlap >= chunk_size fails with the
\* validation error and produces no chunks.
C16_DegenerateChunkingRejected ==
    (chunk_call.pc = "done" /\ chunk_call.overlap >= chunk_call.chunk_size)
    => (chunk_call.result = "ValueError" /\ chunk_call.docs = <<>>)

\* C17: get_or_create_vector_store writes the index only for a call that
\* found no index and was given chunks; a call that finds the index leaves
\* the cache unchanged and never writes; a call that finds no index and has
\* no docs fails with ValueError and no index exists at its path afterwards.
C17_IndexWrittenOnMissOnly ==
    [][/\ faiss_cache' # faiss_cache =>
            \E u \in UploadIds :
               /\ uploads[u].pc = "save_local" /\ uploads'[u].wrote
               /\ uploads[u].built /\ uploads[u].docs_given /\ uploads[u].docs # <<>>
               /\ \A p \in DOMAIN faiss_cache' :
                     p # uploads[u].file_hash => (p \in DOMAIN faiss_cache /\ faiss_cache'[p] = faiss_cache[p])
       /\ \A u \in UploadIds :
            (uploads[u].pc = "vector_store" /\ uploads'[u] # uploads[u]) =>
               /\ uploads[u].file_hash \in DOMAIN faiss_cache =>
                     /\ faiss_cache' = faiss_cache
                     /\ uploads'[u].pc # "save_local" /\ ~uploads'[u].built
                     /\ uploads'[u].faiss_action = "FAISS INDEX RELOADED from cache."
               /\ (uploads[u].file_hash \notin DOMAIN faiss_cache /\ ~uploads[u].docs_given) =>
                     /\ uploads'[u].pc = "done" /\ uploads'[u].result = "ValueError"
                     /\ uploads[u].file_hash \notin DOMAIN faiss_cache']_vars

\* A call without docs failed on a path that has no index, while another
\* call has built and written an index elsewhere.
C17_Witness ==
    \E u, v \in UploadIds :
        /\ uploads[u].pc = "done" /\ uploads[u].result = "ValueError" /\ ~uploads[u].docs_given
        /\ uploads[u].file_hash \notin DOMAIN faiss_cache
        /\ uploads[v].wrote /\ uploads[v].file_hash \in DOMAIN faiss_cache

\* C18: a submit whose (attempt id, student, topic) matches no attempt is
\* rejected as not found and changes no QuizAttempt, StudentAnswer,
\* COPerformance or CourseProgress row.
C18_UnknownAttemptRejected ==
    [][submit_count' # submit_count =>
       \A s \in StudentIds, t \in QuizTopicIds, id \in 1..(attempt_seq + 1), p \in Payloads \ {<<>>} :
          ((~\E a \in attempts : a.id = id /\ a.student_id = s /\ a.topic_id = t)
              /\ submit_quiz(s, t, id, p))
          => (sub'.pc = "done" /\ sub'.result = "not_found" /\ UNCHANGED SubmitTables)]_vars

\* A submit was rejected as not found while a submitted attempt and its
\* answers exist.
C18_Witness ==
    /\ sub.pc = "done" /\ sub.result = "not_found"
    /\ answers # EmptyBag
    /\ \E a \in attempts : a.submitted

\* The questions of the submit's topic that the payload answers correctly.
AnsweredCorrectly ==
    {q \in questions :
        /\ q.topic_id = sub.topic_id
        /\ q.question_id \in DOMAIN sub.answers
        /\ lower(strip(sub.answers[q.question_id])) = lower(strip(q.correct_answer))}

\* C19: when a submit succeeds, the returned and the stored score are the
\* number of the topic's questions whose submitted answer, trimmed and
\* case-folded, equals the stored correct answer, an unanswered question
\* counting as incorrect; total is the number of the topic's questions and
\* 0 <= score <= total.
C19_ScoreCountsMatches ==
    [][(sub.pc = "co_perf" /\ sub'.pc = "done" /\ sub'.result = "success") =>
       LET total == Cardinality({q \in questions : q.topic_id = sub.topic_id}) IN
       /\ sub.score = Cardinality(AnsweredCorrectly)
       /\ sub.total = total
       /\ 0 <= sub.score /\ sub.score <= sub.total
       /\ \A a \in attempts' : a.id = sub.attempt_id =>
              (a.score = sub.score /\ a.total_questions = total /\ a.submitted)]_vars

\* The COPerformance rows of an attempt.
CORows(table, attempt_id) == {r \in BagToSet(table) : r.attempt_id = attempt_id}

RECURSIVE SumField(_, _)
SumField(rows, field) ==
    IF rows = {} THEN 0
    ELSE LET r == CHOOSE x \in rows : TRUE IN r[field] + SumField(rows \ {r}, field)

\* C20: when a submit succeeds, the attempt's COPerformance rows are exactly
\* one row per CO tag among the topic's questions, each holding that tag's
\* question count, its correct count and percentage = 100 * correct / total
\* (0 for total 0); the totals sum to the attempt's total_questions and the
\* correct counts to its score.
C20_CORowsRecomputed ==
    [][(sub.pc = "co_perf" /\ sub'.pc = "done" /\ sub'.result = "success") =>
       LET qs == {q \in questions : q.topic_id = sub.topic_id}
           rows == CORows(co_perf', sub.attempt_id)
       IN /\ {r.co_tag : r \in rows} = {q.co_tag : q \in qs}
          /\ \A r \in rows :
                /\ CopiesIn(r, co_perf') = 1
                /\ \A o \in rows : o.co_tag = r.co_tag => o = r
                /\ r.total_questions = Cardinality({q \in qs : q.co_tag = r.co_tag})
                /\ r.correct_answers
                      = Cardinality({q \in qs : q.co_tag = r.co_tag /\ IsCorrect(sub.answers, q)})
                /\ r.percentage.den > 0
                /\ IF r.total_questions = 0 THEN r.percentage.num = 0
                   ELSE r.percentage.num * r.total_questions
                           = 100 * r.correct_answers * r.percentage.den
          /\ \A a \in attempts : a.id = sub.attempt_id =>
                /\ SumField(rows, "total_questions") = a.total_questions
                /\ SumField(rows, "correct_answers") = a.score]_vars

\* A second submit of an attempt over a topic with two CO tags has succeeded.
C20_Witness ==
    /\ sub.pc = "done" /\ sub.result = "success" /\ submit_count = 2
    /\ \E a \in attempts :
          /\ a.submitted /\ a.score = 1
          /\ Cardinality(CORows(co_perf, a.id)) = 2
          /\ \E p \in BagToSet(progress) :
                p.student_id = a.student_id /\ p.topic_id = a.topic_id
                /\ p.completed_at > p.viewed_at

(***************************************************************************)
(* Properties: analytics                                                   *)
(***************************************************************************)

\* A stored answer is correct when the student gave an answer and it equals
\* the stored correct answer up to case.
MarkedCorrect(r) == r.student_answer # <<>> /\ lower(r.student_answer) = lower(r.correct_answer)

\* The StudentAnswer rows of a set of students on the topics of a course.
RowsIn(student_ids, course_id) ==
    {r \in DOMAIN answers :
        \E a \in attempts, t \in topics :
            /\ a.id = r.attempt_id /\ a.student_id \in student_ids
            /\ t.id = a.topic_id /\ t.course_id = course_id}

RowTotal(rows) == BagCardinality([r \in rows |-> answers[r]])

\* m is 100 * correct / total rounded to the nearest integer.
IsRoundedPercent(m, correct, total) ==
    /\ m \in 0..100
    /\ 2 * (100 * correct - m * total) <= total
    /\ 2 * (m * total - 100 * correct) <= total

\* C21: the per-CO mastery the student page computes for a student and a
\* course has exactly one entry per CO tag that occurs among the student's
\* StudentAnswers on the course's topics, each entry is
\* round(100 * correct / total) over those answers, and lies in 0..100; a tag
\* without recorded answers has no entry.
C21_MasteryPerTag ==
    (report.view = "student" /\ report.raised = "") =>
        \A c \in DOMAIN report.courses_data :
            LET m == report.courses_data[c].co_progress_dict
                rows == RowsIn({report.student_id}, c)
            IN /\ DOMAIN m = {r.co_tag : r \in rows}
               /\ \A co \in DOMAIN m :
                     IsRoundedPercent(m[co],
                                      RowTotal({r \in rows : r.co_tag = co /\ MarkedCorrect(r)}),
                                      RowTotal({r \in rows : r.co_tag = co}))

\* Student 1 has CO1 answers (one of three right) and a right CO2 answer in
\* course 1, none for CO3, and answers in course 2 as well.
C21_Witness ==
    /\ report.view = "student" /\ report.student_id = 1 /\ report.raised = ""
    /\ report.courses_data[1].co_progress_dict = (CO1 :> 33 @@ CO2 :> 100)
    /\ CO2 \in DOMAIN report.courses_data[2].co_progress_dict

\* C22: the course-average mastery the faculty page computes for a tag is
\* round(100 * correct / total) with correct and total pooled over the
\* answers of all students on the course's topics: one entry per tag that
\* occurs among those answers, whatever the per-student percentages are.
C22_CourseAveragePooled ==
    (report.view = "faculty" /\ report.raised = "") =>
        \A c \in DOMAIN report.courses_data :
            LET avg == report.courses_data[c].co_avg
                rows == RowsIn(StudentIds, c)
            IN /\ DOMAIN avg = {r.co_tag : r \in rows}
               /\ \A co \in DOMAIN avg :
                     IsRoundedPercent(avg[co],
                                      RowTotal({r \in rows : r.co_tag = co /\ MarkedCorrect(r)}),
                                      RowTotal({r \in rows : r.co_tag = co}))

\* Student 1 has 1 of 1 CO1 answers right (100), student 2 has 1 of 3 (33):
\* the pooled average is 2 of 4 = 50, not the mean of 100 and 33.
C22_Witness ==
    /\ report.view = "faculty" /\ report.raised = ""
    /\ DictGet(DictGet(report.courses_data[1].per_student_co, 1, <<>>), CO1, 0) = 100
    /\ DictGet(DictGet(report.courses_data[1].per_student_co, 2, <<>>), CO1, 0) = 33
    /\ DictGet(report.courses_data[1].co_avg, CO1, 0) = 50

\* The student's mastery for a tag as the page shows it: the computed
\* percentage, 0 for a tag without recorded answers.
MasteryShown(course_data, co) == DictGet(course_data.co_progress_dict, co, 0)

\* 100 * count(tag) / total questions in the topic is at least 40.
DistributionAtLeast40(topic_id, co) ==
    LET topic_questions == {q \in questions : q.topic_id = topic_id}
    IN /\ topic_questions # {}
       /\ 100 * Cardinality({q \in topic_questions : q.co_tag = co})
             >= 40 * Cardinality(topic_questions)

\* C23: on the student page, for every course, CO tag and topic of the
\* course, the topic is among the recommendations for the tag if and only if
\* the student's mastery for the tag is below 60 and at least 40 percent of
\* the topic's questions carry the tag; a tag with mastery 60 or above has
\* no recommended topic.
C23_RecommendedIffLowAndRelevant ==
    (report.view = "student" /\ report.raised = "") =>
        \A c \in DOMAIN report.courses_data :
            LET data == report.courses_data[c]
            IN \A co \in COURSE_OUTCOMES, t \in {x \in topics : x.course_id = c} :
                  (co \in DOMAIN data.recommendations /\ t.id \in data.recommendations[co])
                  <=> (MasteryShown(data, co) < 60 /\ DistributionAtLeast40(t.id, co))

\* C24: whatever total_topics a course is configured with and however many
\* topics a student has completed, the completion percentage that the
\* student page, the faculty page and the dashboard report lies in 0..100,
\* and computing it never divides by zero.
C24_CompletionWithinBounds ==
    /\ report.raised # "ZeroDivisionError"
    /\ report.view = "student" =>
          \A c \in DOMAIN report.courses_data : report.courses_data[c].course_progress \in 0..100
    /\ report.view = "faculty" =>
          \A c \in DOMAIN report.courses_data :
              \A sid \in DOMAIN report.courses_data[c].intervention_students :
                  report.courses_data[c].intervention_students[sid].course_progress \in 0..100
    /\ report.view = "dashboard" =>
          \A c \in DOMAIN report.courses_data : report.courses_data[c].progress \in 0..100

(***************************************************************************)
(* Properties: topics and their files                                      *)
(***************************************************************************)

\* C25: in every reachable state, concurrent uploads included, no two
\* Topics of a course share a topic_no or a file_name and no course has more
\* than MaxTopics topics; an upload rejected as a duplicate or for the limit
\* has hashed, chunked and built nothing and has created no Topic.
C25_TopicsUniquePerCourse ==
    /\ \A t1, t2 \in topics :
          (t1.course_id = t2.course_id /\ (t1.topic_no = t2.topic_no \/ t1.file_name = t2.file_name))
          => t1 = t2
    /\ \A c \in CourseIds : Cardinality({t \in topics : t.course_id = c}) <= MaxTopics
    /\ \A u \in UploadIds :
          (uploads[u].pc = "done" /\ uploads[u].result \in {"duplicate", "limit"})
          => /\ uploads[u].file_hash = -1 /\ uploads[u].docs = <<>>
             /\ ~uploads[u].built /\ ~uploads[u].wrote
             /\ \A t \in topics : t.document_uuid # u

(***************************************************************************)
(* Properties: snapshots and ownership                                     *)
(***************************************************************************)

IndexOfTopic(topic_id) == faiss_cache[(CHOOSE t \in topics : t.id = topic_id).file_hash]

\* Chunks taken per topic: 2, or all of them when the retriever ranks fewer.
TakenPerTopic(index) == IF Len(index.docs) < 2 THEN Len(index.docs) ELSE 2

\* C27: a generate request leaves the index as it was, and when it reaches
\* the backend its retrieved chunks are, topic after topic in the order of
\* the topic list, the (at most 2) best-ranked chunks of each topic in rank
\* order, so at most 2 * number of topics chunks, a chunk ranked for two
\* topics appearing once for each; the merged context is their page contents
\* in that order.
C27_ContextInTopicThenRankOrder ==
    [][gen_count' # gen_count =>
          /\ faiss_cache' = faiss_cache
          /\ gen'.pc = "llm" =>
                LET index == IndexOfTopic(gen'.topic_id)
                    m == TakenPerTopic(index)
                    n == Len(gen'.topic_list)
                IN /\ Len(gen'.chunks) <= 2 * n
                   /\ Len(gen'.chunks) = m * n
                   /\ \A i \in 1..n, j \in 1..m :
                         gen'.chunks[(i - 1) * m + j] = Ranked(index, gen'.topic_list[i])[j]
                   /\ Len(gen'.context) = Len(gen'.chunks)
                   /\ \A k \in 1..Len(gen'.chunks) : gen'.context[k] = gen'.chunks[k].page_content]_vars

\* Topics "s" and "t" over chunks 1, 2, 3: "s" retrieves 1, 2 and "t"
\* retrieves 3, 2; chunk 2 is in the context twice.
C27_Witness ==
    /\ gen.pc = "llm"
    /\ gen.topic_list = << <<"s">>, <<"t">> >>
    /\ gen.context = <<1, 2, MaxIndexed, MaxIndexed - 1>>

(***************************************************************************)
(* Properties: topic files                                                 *)
(***************************************************************************)

\* The request of this step was made on the topic with this id.
OperatesOn(topic_id) == manage' # manage /\ manage'.topic_id = topic_id

\* C28: after every step each Topic's file_hash is the fingerprint of the
\* file stored at its file_path and an index is persisted for that hash, and
\* a step that is not an update or delete of a Topic leaves that Topic's
\* stored file in place with the same bytes.
C28_TopicFileMatchesHash ==
    [][/\ \A t \in topics' :
             /\ t.file_path \in DOMAIN upload_dir'
             /\ calculate_file_hash(upload_dir'[t.file_path]) = t.file_hash
             /\ IndexExists(faiss_cache', t.file_hash)
       /\ \A t \in topics :
             (~OperatesOn(t.id) /\ t.file_path \in DOMAIN upload_dir)
                => /\ t.file_path \in DOMAIN upload_dir'
                   /\ upload_dir'[t.file_path] = upload_dir[t.file_path]]_vars

(***************************************************************************)
(* Properties: agreement of the aggregators                                *)
(***************************************************************************)

\* submit_quiz's verdict on a stored answer: the stored (stripped) answer
\* equals the stored (stripped) correct answer up to case.
ScoredCorrect(r) == lower(r.student_answer) = lower(r.correct_answer)

\* The StudentAnswer rows of a student over all courses.
RowsOfStudentAnywhere(student_id) == UNION {RowsIn({student_id}, c.id) : c \in courses}

\* C29: every stored answer is counted correct by the mastery of the student
\* page and of the faculty page, and by the dashboard, exactly when
\* submit_quiz scored it correct; the dashboard's percentage of a tag is
\* round(100 * correct / total) over the answers as submit_quiz scored them;
\* and the faculty page's percentages of a student are the ones the student
\* page computes for that student and course.
C29_AggregatorsAgreeWithSubmit ==
    /\ (report.view \in {"student", "faculty"} /\ report.raised = "") =>
          \A r \in DOMAIN answers : ScoredCorrect(r) <=> CountsCorrect(r)
    /\ (report.view = "faculty" /\ report.raised = "") =>
          \A c \in DOMAIN report.courses_data :
             \A s \in DOMAIN report.courses_data[c].per_student_co :
                report.courses_data[c].per_student_co[s]
                   = get_co_progress_single_attempt(DB, s, c)
    /\ report.view = "dashboard" =>
          LET rows == RowsOfStudentAnywhere(report.student_id)
          IN /\ \A r \in rows : ScoredCorrect(r) <=> ColumnsEqual(r)
             /\ \A co \in DOMAIN report.co_progress :
                   IsRoundedPercent(report.co_progress[co],
                                    RowTotal({r \in rows : r.co_tag = co /\ ScoredCorrect(r)}),
                                    RowTotal({r \in rows : r.co_tag = co}))

(***************************************************************************)
(* Properties: ownership                                                   *)
(***************************************************************************)

\* The rows a student owns: the student's attempts, the answers of those
\* attempts, and the CO and progress rows carrying the student's id.
OwnedBy(student_id) ==
    LET mine == {a \in attempts : a.student_id = student_id}
    IN [attempts |-> mine,
        answers |-> [row \in {r \in DOMAIN answers : r.attempt_id \in {a.id : a \in mine}}
                        |-> answers[row]],
        co_perf |-> [row \in {r \in DOMAIN co_perf : r.student_id = student_id} |-> co_perf[row]],
        progress |-> [row \in {r \in DOMAIN progress : r.student_id = student_id} |-> progress[row]]]

\* The student whose submit this step belongs to.
Submitter == IF sub.pc \in {"score", "progress", "co_perf"} THEN sub.user_id ELSE sub'.user_id

\* C30: every step of a submit_quiz request, accepted or rejected, whatever
\* attempt id and topic id it carries, leaves the rows owned by every
\* student other than the submitting one as they were.
C30_SubmitTouchesOnlyOwnRows ==
    [][(submit_count' # submit_count \/ sub' # sub) =>
          \A other \in StudentIds \ {Submitter} : OwnedBy(other)' = OwnedBy(other)]_vars

\* Student 1's submit has passed the attempt lookup and replaced student 1's
\* answers while student 2 owns a scored attempt with answers, CO rows and
\* a progress row.
C30_Witness ==
    /\ sub.pc = "progress" /\ sub.user_id = 1
    /\ \E a \in attempts : a.student_id = 2 /\ a.submitted
    /\ OwnedBy(2).answers # EmptyBag
    /\ OwnedBy(2).co_perf # EmptyBag
    /\ OwnedBy(2).progress # EmptyBag
    /\ OwnedBy(1).answers # EmptyBag
====
